---- MODULE Spec2Model ----
(***************************************************************************)
(* Account mapping reconciliation of akahu_to_budget.                      *)
(*                                                                         *)
(* Two implementations of the reconciliation functions live in the         *)
(* repository and both read and write the same akahu_budget_mapping.json:  *)
(*   "modules" : src/modules/account_mapper.py                             *)
(*   "script"  : src/akahu_budget_mapping.py (the one main() runs)         *)
(* Python dicts are functions whose DOMAIN is the set of keys; Python's    *)
(* None is the string NoneVal; timestamps are natural numbers.             *)
(***************************************************************************)
EXTENDS Integers, Sequences, FiniteSets, TLC

\* ------------------------------------------------------------------ bounds

\* Number of reconciliation passes (runs of main) a behaviour contains.
MaxPasses == 2

\* ------------------------------------------------------------- universes

\* Account ids are opaque strings, each unique within its provider only: the
\* source account "s2" and the Actual account "s2" are different accounts that
\* carry the same id.
AkahuIds == {"a1", "s2"}
ActualIds == {"s2"}
YnabIds == {"y1", "y2"}
Providers == {"actual", "ynab"}
Ids(provider) ==
    CASE provider = "akahu" -> AkahuIds
      [] provider = "actual" -> ActualIds
      [] provider = "ynab" -> YnabIds
Impls == {"modules", "script"}

NoneVal == "None"

\* Replies the user may type at the deletion confirmation prompt.
Replies == {"Y", "y", "n", ""}

\* Scalar attribute values a provider may report for an account.
Balances == {0, 1}

AccountName(provider, i) ==
    CASE provider = "akahu" /\ i = "a1" -> "Everyday"
      [] provider = "akahu" /\ i = "s2" -> "savings"
      [] provider = "actual" /\ i = "s2" -> "Cheque"
      [] provider = "ynab" /\ i = "y1" -> "Savings"
      [] provider = "ynab" /\ i = "y2" -> "cheque"

\* ------------------------------------------------------------ dict helpers

EmptyDict == [k \in {} |-> NoneVal]

\* dict.get(k, default)
Get(d, k, default) == IF k \in DOMAIN d THEN d[k] ELSE default

\* for k in ks: d.pop(k, None)
PopAll(d, ks) == [x \in (DOMAIN d) \ ks |-> d[x]]

\* d.update(u)
Update(d, u) ==
    [x \in (DOMAIN d) \cup (DOMAIN u) |-> IF x \in DOMAIN u THEN u[x] ELSE d[x]]

\* str.lower() on the replies of the model
Lower(s) == IF s = "Y" THEN "y" ELSE s

\* ---------------------------------------------------------------- accounts

\* An account as a fetch returns it: scalar fields only, no date_first_loaded.
FetchedAccount(provider, i, b) ==
    [id |-> i, name |-> AccountName(provider, i), balance |-> b]

\* The collections a fetch of one provider may return: any subset of the
\* provider's accounts is open at the time of the fetch.
FetchChoices(provider) ==
    {[i \in S |-> FetchedAccount(provider, i, 0)] : S \in SUBSET Ids(provider)}

KeyedById(collection) == \A i \in DOMAIN collection : collection[i].id = i

\* combine_accounts reporting every existing id as deleted.
combine_accounts_all_deleted(latest_accounts, existing_accounts, current_date) ==
    [combined_accounts |->
        [account_id \in DOMAIN latest_accounts |->
            Update(latest_accounts[account_id],
                   [date_first_loaded |->
                        IF account_id \in DOMAIN existing_accounts
                        THEN Get(existing_accounts[account_id],
                                 "date_first_loaded", current_date)
                        ELSE current_date])],
     deleted_accounts |-> DOMAIN existing_accounts]

\* combine_accounts stamping every record with the merge time.
combine_accounts_restamp(latest_accounts, existing_accounts, current_date) ==
    [combined_accounts |->
        [account_id \in DOMAIN latest_accounts |->
            Update(latest_accounts[account_id],
                   [date_first_loaded |-> current_date])],
     deleted_accounts |->
        {account_id \in DOMAIN existing_accounts :
            account_id \notin DOMAIN latest_accounts}]

\* combine_accounts: the combined collection holds the latest records, each
\* with date_first_loaded copied from the existing record or set to the merge
\* time; deleted_accounts (a list the callers only iterate and test for
\* emptiness) is the set of ids that are only in the existing collection.
combine_accounts(latest_accounts, existing_accounts, current_date) ==
    [combined_accounts |->
        [account_id \in DOMAIN latest_accounts |->
            Update(latest_accounts[account_id],
                   [date_first_loaded |->
                        IF account_id \in DOMAIN existing_accounts
                        THEN Get(existing_accounts[account_id],
                                 "date_first_loaded", current_date)
                        ELSE current_date])],
     deleted_accounts |->
        {account_id \in DOMAIN existing_accounts :
            account_id \notin DOMAIN latest_accounts}]

\* ----------------------------------------------------------------- mapping

\* The keys the deletion path pops from an entry for one provider
\* (account_mapper.py lines 99 and 106, akahu_budget_mapping.py lines 250-260).
RemovedKeys(P) ==
    IF P = "actual"
    THEN {"actual_account_id", "actual_budget_id", "actual_budget_name",
          "actual_account_name"}
    ELSE {"ynab_account_id", "ynab_budget_id", "ynab_budget_name",
          "ynab_account_name"}

AccountIdKey(P) == IF P = "actual" THEN "actual_account_id" ELSE "ynab_account_id"

\* The reply counts as a confirmation whatever was typed.
IsConfirmation_any(confirmation) == TRUE

\* confirmation.lower() == 'y'
IsConfirmation(confirmation) == Lower(confirmation) = "y"

\* for akahu_id in ...: updated_mapping.pop(akahu_id, None)
PopEntries(mapping, akahu_ids) == PopAll(mapping, akahu_ids)

\* for target_id, akahu_id in pairs:
\*     if akahu_id in mapping and mapping[akahu_id].get(key) == target_id:
\*         pop the provider's keys from mapping[akahu_id]
StripPairs(mapping, pairs, P) ==
    [akahu_id \in DOMAIN mapping |->
        IF \E p \in pairs :
              /\ p[2] = akahu_id
              /\ Get(mapping[akahu_id], AccountIdKey(P), NoneVal) = p[1]
        THEN PopAll(mapping[akahu_id], RemovedKeys(P))
        ELSE mapping[akahu_id]]

\* merge_and_update_mapping of modules/account_mapper.py.  The prompt is shown
\* when any provider lost an account.  The Actual pairs are (aid, aid): the
\* deleted Actual id is used as the mapping key.  Building the YNAB pairs
\* evaluates the name aid, which no scope binds: a NameError as soon as
\* deleted_ynab_accounts is not empty.
merge_modules(existing_mapping, latest_akahu, latest_actual, latest_ynab, existing_akahu, existing_actual, existing_ynab, current_date, confirmation) ==
    LET akahu == combine_accounts(latest_akahu, existing_akahu, current_date)
        actual == combine_accounts(latest_actual, existing_actual, current_date)
        ynab == combine_accounts(latest_ynab, existing_ynab, current_date)
        prompted == \/ akahu.deleted_accounts # {}
                    \/ actual.deleted_accounts # {}
                    \/ ynab.deleted_accounts # {}
        confirmed == prompted /\ IsConfirmation(confirmation)
        after_akahu == PopEntries(existing_mapping, akahu.deleted_accounts)
        actual_pairs == {<<aid, aid>> : aid \in actual.deleted_accounts}
        after_actual == StripPairs(after_akahu, actual_pairs, "actual")
    IN  [raised |-> confirmed /\ ynab.deleted_accounts # {},
         prompted |-> prompted,
         updated_mapping |-> IF confirmed THEN after_actual ELSE existing_mapping,
         combined_akahu_accounts |-> akahu.combined_accounts,
         combined_actual_accounts |-> actual.combined_accounts,
         combined_ynab_accounts |-> ynab.combined_accounts]

\* merge_and_update_mapping of akahu_budget_mapping.py.  In the loop over the
\* mapping keys the statements that collect actual_to_delete and
\* ynab_to_delete are indented into the block that ends with `continue`, so
\* they never run and both lists stay empty.
merge_script(existing_mapping, latest_akahu, latest_actual, latest_ynab, existing_akahu, existing_actual, existing_ynab, current_date, confirmation) ==
    LET akahu == combine_accounts(latest_akahu, existing_akahu, current_date)
        actual == combine_accounts(latest_actual, existing_actual, current_date)
        ynab == combine_accounts(latest_ynab, existing_ynab, current_date)
        akahu_to_delete == {akahu_id \in DOMAIN existing_mapping :
                               akahu_id \notin DOMAIN akahu.combined_accounts}
        actual_to_delete == {}
        ynab_to_delete == {}
        prompted == \/ akahu_to_delete # {}
                    \/ actual_to_delete # {}
                    \/ ynab_to_delete # {}
        confirmed == prompted /\ IsConfirmation(confirmation)
        after_akahu == PopEntries(existing_mapping, akahu_to_delete)
        after_actual == StripPairs(after_akahu, actual_to_delete, "actual")
        after_ynab == StripPairs(after_actual, ynab_to_delete, "ynab")
    IN  [raised |-> FALSE,
         prompted |-> prompted,
         updated_mapping |-> IF confirmed THEN after_ynab ELSE existing_mapping,
         combined_akahu_accounts |-> akahu.combined_accounts,
         combined_actual_accounts |-> actual.combined_accounts,
         combined_ynab_accounts |-> ynab.combined_accounts]

merge_and_update_mapping(which, existing_mapping, latest_akahu, latest_actual, latest_ynab, existing_akahu, existing_actual, existing_ynab, current_date, confirmation) ==
    IF which = "modules"
    THEN merge_modules(existing_mapping, latest_akahu, latest_actual, latest_ynab,
                       existing_akahu, existing_actual, existing_ynab,
                       current_date, confirmation)
    ELSE merge_script(existing_mapping, latest_akahu, latest_actual, latest_ynab,
                      existing_akahu, existing_actual, existing_ynab,
                      current_date, confirmation)

\* ---------------------------------------------------------------- matching

\* What the user may type at a matching prompt.
UserInputs == {"", "x", "0", "1", "2", "3"}

\* int(response_content): the strings that parse, and their values.
IsInt(text) == text \in {"0", "1", "2", "3"}
IntOf(text) ==
    CASE text = "0" -> 0 [] text = "1" -> 1 [] text = "2" -> 2 [] text = "3" -> 3

\* None where an int is expected.
NoneInt == -1

\* x['name'].lower(), as the position of the lower-cased name in string order.
LowerNameRank(name) ==
    CASE name \in {"Cheque", "cheque"} -> 1
      [] name = "Everyday" -> 2
      [] name \in {"Savings", "savings"} -> 3

\* sorted(accounts, key=lambda x: x['name'].lower()) as the sequence of ids.
RECURSIVE SortedIds(_, _)
SortedIds(accounts, ids) ==
    IF ids = {} THEN << >>
    ELSE LET first == CHOOSE i \in ids :
                         \A j \in ids : LowerNameRank(accounts[i].name)
                                          <= LowerNameRank(accounts[j].name)
         IN  <<first>> \o SortedIds(accounts, ids \ {first})

\* for idx, target_account in enumerate(target_accounts_list, start=1):
\*     target_account['seq'] = idx
AssignSeq(target_accounts) ==
    LET order == SortedIds(target_accounts, DOMAIN target_accounts)
    IN  [i \in DOMAIN target_accounts |->
            Update(target_accounts[i],
                   [seq |-> CHOOSE n \in 1..Len(order) : order[n] = i])]

\* any(account_id == mapping.get(target_account_key) for mapping in ...values())
IsClaimed(mapping, P, account_id) ==
    \E k \in DOMAIN mapping : Get(mapping[k], AccountIdKey(P), NoneVal) = account_id

\* seq_to_acct: the id of the target with this seq, NoneVal if there is none.
seq_to_acct(seq, targets) ==
    IF \E i \in DOMAIN targets : targets[i].seq = seq
    THEN CHOOSE i \in DOMAIN targets : targets[i].seq = seq
    ELSE NoneVal

\* validate_user_input accepting the seq of a target that is already claimed.
validate_user_input_unchecked(response_content, targets, mapping, P) ==
    IF ~IsInt(response_content) THEN NoneInt
    ELSE LET chosen_seq == IntOf(response_content)
             account_id == seq_to_acct(chosen_seq, targets)
         IN  IF chosen_seq = 0 THEN 0
             ELSE IF account_id # NoneVal THEN chosen_seq
             ELSE NoneInt

\* validate_user_input reading a reply that is no integer as 0.
validate_user_input_lenient(response_content, targets, mapping, P) ==
    IF ~IsInt(response_content) THEN 0
    ELSE LET chosen_seq == IntOf(response_content)
             account_id == seq_to_acct(chosen_seq, targets)
         IN  IF chosen_seq = 0 THEN 0
             ELSE IF account_id # NoneVal /\ ~IsClaimed(mapping, P, account_id)
                  THEN chosen_seq
             ELSE NoneInt

\* validate_user_input (the same code in both files).
validate_user_input(response_content, targets, mapping, P) ==
    IF ~IsInt(response_content) THEN NoneInt
    ELSE LET chosen_seq == IntOf(response_content)
             account_id == seq_to_acct(chosen_seq, targets)
         IN  IF chosen_seq = 0 THEN 0
             ELSE IF account_id # NoneVal /\ ~IsClaimed(mapping, P, account_id)
                  THEN chosen_seq
             ELSE NoneInt

\* os.getenv('ACTUAL_SYNC_ID') and os.getenv('YNAB_BUDGET_ID')
EnvBudgetId(P) == IF P = "actual" THEN "sync-id" ELSE "budget-id"

\* The dict match_accounts of modules/account_mapper.py writes on DoNotMap.
do_not_map_fields(P, akahu_id, akahu_name, t) ==
    IF P = "actual"
    THEN [actual_do_not_map |-> TRUE, akahu_id |-> akahu_id,
          akahu_name |-> akahu_name, actual_matched_date |-> t]
    ELSE [ynab_do_not_map |-> TRUE, akahu_id |-> akahu_id,
          akahu_name |-> akahu_name, ynab_matched_date |-> t]

\* The Confirmed dict without the budget ids.
confirmed_fields_modules_no_budget(P, akahu_id, akahu_name, selected_id, selected_name, t) ==
    IF P = "actual"
    THEN [actual_account_id |-> selected_id, actual_account_name |-> selected_name,
          akahu_id |-> akahu_id, akahu_name |-> akahu_name,
          actual_matched_date |-> t]
    ELSE [ynab_account_id |-> selected_id, ynab_account_name |-> selected_name,
          akahu_id |-> akahu_id, akahu_name |-> akahu_name,
          ynab_matched_date |-> t]

\* The dict match_accounts of modules/account_mapper.py writes on Confirmed:
\* both budget ids are written, the other provider's as None.
confirmed_fields_modules(P, akahu_id, akahu_name, selected_id, selected_name, t) ==
    IF P = "actual"
    THEN [actual_account_id |-> selected_id, actual_account_name |-> selected_name,
          akahu_id |-> akahu_id, akahu_name |-> akahu_name,
          actual_matched_date |-> t,
          actual_budget_id |-> EnvBudgetId("actual"), ynab_budget_id |-> NoneVal]
    ELSE [ynab_account_id |-> selected_id, ynab_account_name |-> selected_name,
          akahu_id |-> akahu_id, akahu_name |-> akahu_name,
          ynab_matched_date |-> t,
          actual_budget_id |-> NoneVal, ynab_budget_id |-> EnvBudgetId("ynab")]

\* The dict match_accounts of akahu_budget_mapping.py writes on Confirmed.
confirmed_fields_script(P, akahu_id, akahu_name, selected_id, selected_name, t) ==
    IF P = "actual"
    THEN [actual_account_id |-> selected_id, actual_account_name |-> selected_name,
          akahu_id |-> akahu_id, akahu_name |-> akahu_name,
          actual_matched_date |-> t]
    ELSE [ynab_account_id |-> selected_id, ynab_account_name |-> selected_name,
          akahu_id |-> akahu_id, akahu_name |-> akahu_name,
          ynab_matched_date |-> t]

DoNotMapKey(P) == IF P = "actual" THEN "actual_do_not_map" ELSE "ynab_do_not_map"

\* A suggestion is the int or the str the strategy returned.
IntSuggestion(n) == [type |-> "int", value |-> n]
StrSuggestion(n) == [type |-> "str", value |-> n]

\* What the suggestion strategies can return at one prompt: 0 or the seq of an
\* unclaimed target; the fuzzy fallback of akahu_budget_mapping.py returns the
\* str "0" for no match.
Suggestions(which, targets, mapping, P) ==
    {IntSuggestion(0)}
    \cup {IntSuggestion(targets[i].seq) :
            i \in {j \in DOMAIN targets : ~IsClaimed(mapping, P, j)}}
    \cup (IF which = "script" THEN {StrSuggestion(0)} ELSE {})

\* The external call of get_openai_match_suggestion raised.
ApiRaises == "APIError"

\* What the external call can give: an exception or the stripped reply text.
OpenAIResponses == UserInputs \cup {ApiRaises}

\* The targets no mapping entry claims for P.
Unmapped(targets, mapping, P) ==
    {i \in DOMAIN targets : ~IsClaimed(mapping, P, i)}

\* What process.extractOne can return on the unmapped names: any of them as
\* the best match, with a confidence below or at the threshold of 50.  It is
\* not called when every target is claimed.
FuzzyOutcomes(targets, mapping, P) ==
    IF Unmapped(targets, mapping, P) = {}
    THEN {[best |-> NoneVal, confidence |-> 0]}
    ELSE {[best |-> i, confidence |-> c] :
             i \in Unmapped(targets, mapping, P), c \in {49, 50}}

\* get_fuzzy_match_suggestion: the seq of the best match when it is confident,
\* otherwise 0 (modules/account_mapper.py) or "0" (akahu_budget_mapping.py).
get_fuzzy_match_suggestion(which, fuzzy, targets, mapping, P) ==
    IF Unmapped(targets, mapping, P) # {} /\ fuzzy.confidence >= 50
    THEN IntSuggestion(targets[fuzzy.best].seq)
    ELSE IF which = "modules" THEN IntSuggestion(0) ELSE StrSuggestion(0)

\* get_openai_match_suggestion returning any integer reply as it is.
get_openai_match_suggestion_unvalidated(which, response, fuzzy, targets, mapping, P) ==
    IF response # ApiRaises /\ IsInt(response)
    THEN IntSuggestion(IntOf(response))
    ELSE get_fuzzy_match_suggestion(which, fuzzy, targets, mapping, P)

\* get_openai_match_suggestion: the validated reply of the external call, or
\* the fuzzy suggestion when the call raised or the reply did not validate.
get_openai_match_suggestion(which, response, fuzzy, targets, mapping, P) ==
    IF response = ApiRaises
    THEN get_fuzzy_match_suggestion(which, fuzzy, targets, mapping, P)
    ELSE LET chosen_index == validate_user_input(response, targets, mapping, P)
         IN  IF chosen_index # NoneInt
             THEN IntSuggestion(chosen_index)
             ELSE get_fuzzy_match_suggestion(which, fuzzy, targets, mapping, P)

\* The skip test never skipping.
is_skipped_modules_never(mapping, akahu_id, P) == FALSE

\* The skip test looking at P_account_id only.
is_skipped_modules_mapped_only(mapping, akahu_id, P) ==
    /\ akahu_id \in DOMAIN mapping
    /\ AccountIdKey(P) \in DOMAIN mapping[akahu_id]

\* The skip test of match_accounts (modules/account_mapper.py): the entry
\* exists and holds the key P_account_id or the key P_do_not_map.
is_skipped_modules(mapping, akahu_id, P) ==
    /\ akahu_id \in DOMAIN mapping
    /\ \/ AccountIdKey(P) \in DOMAIN mapping[akahu_id]
       \/ DoNotMapKey(P) \in DOMAIN mapping[akahu_id]

\* str(n) for the seq numbers.
StrOf(n) == CASE n = 0 -> "0" [] n = 1 -> "1" [] n = 2 -> "2" [] n = 3 -> "3"

\* The loop iteration taking the suggestion when the user presses Enter.
match_step_modules_prefill(st, akahu_accounts, targets, P, akahu_id, user_input, suggestion, t) ==
    LET mapping == st.mapping
        entry == Get(mapping, akahu_id, EmptyDict)
        validated_index == validate_user_input(
                               IF user_input = "" THEN StrOf(suggestion.value)
                               ELSE user_input, targets, mapping, P)
        selected_id == seq_to_acct(validated_index, targets)
        visited == [st EXCEPT !.suggested = @ \cup {akahu_id},
                              !.asked = @ \cup {akahu_id}]
    IN  IF st.raised THEN st
        ELSE IF is_skipped_modules(mapping, akahu_id, P)
        THEN st
        ELSE IF validated_index = NoneInt
        THEN visited
        ELSE IF validated_index = 0
        THEN [visited EXCEPT !.mapping = Update(mapping, [k \in {akahu_id} |->
                  Update(entry, do_not_map_fields(
                      P, akahu_id, akahu_accounts[akahu_id].name, t))])]
        ELSE [visited EXCEPT !.mapping = Update(mapping, [k \in {akahu_id} |->
                  Update(entry, confirmed_fields_modules(
                      P, akahu_id, akahu_accounts[akahu_id].name,
                      selected_id, targets[selected_id].name, t))])]

\* One iteration of the loop of match_accounts (modules/account_mapper.py) for
\* one source account, given what the suggestion strategy returns and what the
\* user types if the account is prompted.  The suggestion is only displayed.
match_step_modules(st, akahu_accounts, targets, P, akahu_id, user_input, suggestion, t) ==
    LET mapping == st.mapping
        entry == Get(mapping, akahu_id, EmptyDict)
        validated_index == validate_user_input(user_input, targets, mapping, P)
        selected_id == seq_to_acct(validated_index, targets)
        visited == [st EXCEPT !.suggested = @ \cup {akahu_id},
                              !.asked = @ \cup {akahu_id}]
    IN  IF st.raised THEN st
        ELSE IF is_skipped_modules(mapping, akahu_id, P)
        THEN st
        ELSE IF validated_index = NoneInt
        THEN visited
        ELSE IF validated_index = 0
        THEN [visited EXCEPT !.mapping = Update(mapping, [k \in {akahu_id} |->
                  Update(entry, do_not_map_fields(
                      P, akahu_id, akahu_accounts[akahu_id].name, t))])]
        ELSE [visited EXCEPT !.mapping = Update(mapping, [k \in {akahu_id} |->
                  Update(entry, confirmed_fields_modules(
                      P, akahu_id, akahu_accounts[akahu_id].name,
                      selected_id, targets[selected_id].name, t))])]

\* One iteration of the loop of match_accounts (akahu_budget_mapping.py).  The
\* suggestion is printed with seq_to_acct(...)['name']: a TypeError when the
\* suggestion is the str "0".  There is no DoNotMap branch: a validated 0 goes
\* to seq_to_acct(0, ...)['id'], a TypeError as well.
match_step_script(st, akahu_accounts, targets, P, akahu_id, user_input, suggestion, t) ==
    LET mapping == st.mapping
        entry == Get(mapping, akahu_id, EmptyDict)
        validated_index == validate_user_input(user_input, targets, mapping, P)
        selected_id == seq_to_acct(validated_index, targets)
        suggested == [st EXCEPT !.suggested = @ \cup {akahu_id}]
        visited == [suggested EXCEPT !.asked = @ \cup {akahu_id}]
    IN  IF st.raised THEN st
        ELSE IF akahu_id \in DOMAIN mapping /\ AccountIdKey(P) \in DOMAIN entry
        THEN st
        ELSE IF suggestion.type = "str"
        THEN [suggested EXCEPT !.raised = TRUE]
        ELSE IF validated_index = NoneInt
        THEN visited
        ELSE IF validated_index = 0
        THEN [visited EXCEPT !.raised = TRUE]
        ELSE [visited EXCEPT !.mapping = Update(mapping, [k \in {akahu_id} |->
                  Update(entry, confirmed_fields_script(
                      P, akahu_id, akahu_accounts[akahu_id].name,
                      selected_id, targets[selected_id].name, t))])]

match_step(which, st, akahu_accounts, targets, P, akahu_id, user_input, suggestion, t) ==
    IF which = "modules"
    THEN match_step_modules(st, akahu_accounts, targets, P, akahu_id,
                            user_input, suggestion, t)
    ELSE match_step_script(st, akahu_accounts, targets, P, akahu_id,
                           user_input, suggestion, t)

\* The loop of match_accounts over the source accounts in name order: the set
\* of outcomes over everything the user may type and the suggestion strategy
\* may return at each prompt.
RECURSIVE match_loop(_, _, _, _, _, _, _)
match_loop(which, outcomes, akahu_accounts, targets, P, order, t) ==
    IF order = << >> THEN outcomes
    ELSE match_loop(
            which,
            UNION {{match_step(which, st, akahu_accounts, targets, P, Head(order),
                               user_input, suggestion, t) :
                        user_input \in UserInputs,
                        suggestion \in Suggestions(which, targets, st.mapping, P)} :
                   st \in outcomes},
            akahu_accounts, targets, P, Tail(order), t)

\* The state of a match_accounts call: whether it raised, the mapping, and the
\* source accounts for which it computed a suggestion and showed the prompt.
MatchState(mapping) ==
    [raised |-> FALSE, mapping |-> mapping, suggested |-> {}, asked |-> {}]

\* match_accounts: every result the call can have.
match_accounts(which, mapping, akahu_accounts, target_accounts, P, t) ==
    match_loop(which, {MatchState(mapping)},
               akahu_accounts, AssignSeq(target_accounts), P,
               SortedIds(akahu_accounts, DOMAIN akahu_accounts), t)

\* ------------------------------------------------------- change detection

\* The fields of an account record whose value is a dict: an Akahu account
\* keeps the nested blocks of the API response.
NestedKeys == {"refreshed"}

\* is_simple_value of the value stored under a key.
is_simple_value(key) == key \notin NestedKeys

\* The dict comprehension of shallow_compare_dicts: the items with a simple value.
SimpleItems(d) == [k \in {j \in DOMAIN d : is_simple_value(j)} |-> d[k]]

\* shallow_compare_dicts comparing the ids only.
shallow_compare_dicts_ids_only(dict1, dict2) == dict1.id = dict2.id

\* shallow_compare_dicts: the simple-valued items of both dicts are equal.
shallow_compare_dicts(dict1, dict2) == SimpleItems(dict1) = SimpleItems(dict2)

\* One provider's flag in check_for_changes of modules/account_mapper.py.
accounts_match_modules(existing, latest) ==
    /\ DOMAIN existing = DOMAIN latest
    /\ \A key \in DOMAIN existing : shallow_compare_dicts(existing[key], latest[key])

\* One provider's flag in check_for_changes of akahu_budget_mapping.py: only
\* the keys of the existing collection are visited.
accounts_match_script(existing, latest) ==
    \A key \in DOMAIN existing :
        /\ key \in DOMAIN latest
        /\ shallow_compare_dicts(existing[key], latest[key])

accounts_match(which, existing, latest) ==
    IF which = "modules" THEN accounts_match_modules(existing, latest)
    ELSE accounts_match_script(existing, latest)

check_for_changes(which, existing_akahu, latest_akahu, existing_actual, latest_actual, existing_ynab, latest_ynab) ==
    <<accounts_match(which, existing_akahu, latest_akahu),
      accounts_match(which, existing_actual, latest_actual),
      accounts_match(which, existing_ynab, latest_ynab)>>

\* -------------------------------------------------------------------- store

\* remove_seq on the three levels of dicts of the saved document.
RemoveSeqRecord(record) == PopAll(record, {"seq"})
RemoveSeqCollection(collection) ==
    [k \in (DOMAIN collection) \ {"seq"} |-> RemoveSeqRecord(collection[k])]
remove_seq(data) ==
    [k \in (DOMAIN data) \ {"seq"} |-> RemoveSeqCollection(data[k])]

\* The four top-level keys of the mapping file.
RequiredKeys == {"akahu_accounts", "actual_accounts", "ynab_accounts", "mapping"}

\* The fields of a record whose value is a Python object json cannot encode
\* (a datetime).
ObjectKeys == {"fetched_at"}

\* json.dumps raises TypeError on a value it cannot encode.
IsSerializable(data) ==
    \A k \in (DOMAIN data) \ {"seq"} : \A i \in DOMAIN data[k] :
        (DOMAIN data[k][i]) \cap ObjectKeys = {}

\* json.dumps(data, indent=4): the text of the document, or the exception.
json_dumps(data) ==
    IF IsSerializable(data)
    THEN [raised |-> NoneVal, text |-> [valid |-> TRUE, json |-> data]]
    ELSE [raised |-> "TypeError", text |-> [valid |-> FALSE, json |-> EmptyDict]]

\* json.loads / json.load of a text: the document, or JSONDecodeError.
json_loads(text) ==
    IF text.valid THEN [raised |-> NoneVal, data |-> text.json]
    ELSE [raised |-> "JSONDecodeError", data |-> EmptyDict]

\* The mapping file: absent, or holding a text.
MissingFile == [exists |-> FALSE, text |-> [valid |-> FALSE, json |-> EmptyDict]]
FileOf(text) == [exists |-> TRUE, text |-> text]

\* What open(mapping_file, "w") leaves before anything is written: an empty
\* file, which is no JSON text.
TruncatedFile == FileOf([valid |-> FALSE, json |-> EmptyDict])

\* The file after a write that broke off: a proper prefix of the text.
PartialFile(text) == FileOf([valid |-> FALSE, json |-> text.json])

\* save_mapping up to the open: the exception that the try block catches
\* before the file is opened, NoneVal if the file is about to be opened.
save_mapping_validate(data) ==
    LET d == json_dumps(data)
    IN  IF d.raised # NoneVal THEN d.raised
        ELSE IF ~(RequiredKeys \subseteq DOMAIN json_loads(d.text).data)
        THEN "ValueError"
        ELSE NoneVal

\* The result of a load: the exception raised or the four returned values.
Loaded(akahu, actual, ynab, mapping) ==
    [raised |-> NoneVal, akahu_accounts |-> akahu, actual_accounts |-> actual,
     ynab_accounts |-> ynab, mapping |-> mapping]
LoadRaises(exception) ==
    [raised |-> exception, akahu_accounts |-> EmptyDict,
     actual_accounts |-> EmptyDict, ynab_accounts |-> EmptyDict,
     mapping |-> EmptyDict]

\* load_existing_mapping of modules/account_mapper.py.
load_existing_mapping_modules(file) ==
    IF ~file.exists THEN LoadRaises("FileNotFoundError")
    ELSE LET d == json_loads(file.text)
         IN  IF d.raised # NoneVal THEN LoadRaises("ValueError")
             ELSE IF ~(RequiredKeys \subseteq DOMAIN d.data)
             THEN LoadRaises("ValueError")
             ELSE Loaded(d.data.akahu_accounts, d.data.actual_accounts,
                         d.data.ynab_accounts, d.data.mapping)

\* load_existing_mapping of akahu_budget_mapping.py.
load_existing_mapping_script(file) ==
    IF ~file.exists THEN Loaded(EmptyDict, EmptyDict, EmptyDict, EmptyDict)
    ELSE LET d == json_loads(file.text)
         IN  IF d.raised # NoneVal THEN LoadRaises(d.raised)
             ELSE Loaded(Get(d.data, "akahu_accounts", EmptyDict),
                         Get(d.data, "actual_accounts", EmptyDict),
                         Get(d.data, "ynab_accounts", EmptyDict),
                         Get(d.data, "mapping", EmptyDict))

load_existing_mapping(which, file) ==
    IF which = "modules" THEN load_existing_mapping_modules(file)
    ELSE load_existing_mapping_script(file)

\* ------------------------------------------------------------------ fetch

\* What a provider does with the request for its accounts: it answers with
\* success, the request raises before any answer, or it answers with a
\* non-success status and a body that is JSON (an error object) or is not.
ResponseKinds == {"ok", "ConnectionError", "http_error_json", "http_error_text"}

\* The result of a fetch: the exception raised or the returned collection.
Fetched(accounts) == [raised |-> NoneVal, accounts |-> accounts]
FetchRaises(exception) == [raised |-> exception, accounts |-> EmptyDict]

\* fetch_akahu_accounts: requests.get is outside any try, a status other than
\* 200 raises RuntimeError; the ACTIVE accounts are kept, _id becomes id and
\* connection is reduced to its name.
fetch_akahu_accounts(kind, items) ==
    IF kind = "ConnectionError" THEN FetchRaises("ConnectionError")
    ELSE IF kind # "ok" THEN FetchRaises("RuntimeError")
    ELSE Fetched([i \in {j \in DOMAIN items : items[j].status = "ACTIVE"} |->
                    [id |-> items[i]["_id"], name |-> items[i].name,
                     balance |-> items[i].balance, status |-> items[i].status,
                     connection |-> items[i].connection.name]])

\* fetch_actual_accounts: any exception is logged and raised again; the
\* accounts that are not closed are kept.
fetch_actual_accounts(kind, accounts) ==
    IF kind # "ok" THEN FetchRaises(kind)
    ELSE Fetched([i \in {j \in DOMAIN accounts : ~accounts[j].closed} |-> accounts[i]])

\* fetch_ynab_accounts of modules/account_fetcher.py: requests.get(...).json()
\* without a look at the status, then the open accounts of data.accounts; an
\* error object has no data key, so .get("data", {}).get("accounts", []) is
\* empty.  except Exception: raise.
fetch_ynab_accounts_modules(kind, accounts) ==
    IF kind = "ConnectionError" THEN FetchRaises("ConnectionError")
    ELSE IF kind = "http_error_text" THEN FetchRaises("JSONDecodeError")
    ELSE IF kind = "http_error_json" THEN Fetched(EmptyDict)
    ELSE Fetched([i \in {j \in DOMAIN accounts : ~accounts[j].closed} |-> accounts[i]])

\* fetch_ynab_accounts of akahu_budget_mapping.py: the same try block, then
\* except Exception: return {}.
fetch_ynab_accounts_script(kind, accounts) ==
    LET r == fetch_ynab_accounts_modules(kind, accounts)
    IN  IF r.raised # NoneVal THEN Fetched(EmptyDict) ELSE r

fetch_ynab_accounts(which, kind, accounts) ==
    IF which = "modules" THEN fetch_ynab_accounts_modules(kind, accounts)
    ELSE fetch_ynab_accounts_script(kind, accounts)

\* ------------------------------------------------------------------- sync

\* Most pages of transactions Akahu holds for an account since its mark; a
\* page holds one transaction.
MaxPages == 2

\* mapping_entry.get(key) is truthy: the key is there and holds an id.
HasId(entry, key) == key \in DOMAIN entry /\ entry[key] # NoneVal

\* mapping_entry.get('P_do_not_map') is truthy.
IsDoNotMap(entry, P) == DoNotMapKey(P) \in DOMAIN entry /\ entry[DoNotMapKey(P)]

\* mapping_entry.get('account_type', 'On Budget')
AccountTypeOf(entry) == Get(entry, "account_type", "On Budget")

\* get_akahu_balance: the balance, None on a status other than 200, or the
\* exception of the request raised again.
get_akahu_balance(kind) ==
    IF kind = "ConnectionError" THEN [raised |-> "ConnectionError", balance |-> NoneInt]
    ELSE IF kind = "ok" THEN [raised |-> NoneVal, balance |-> 1]
    ELSE [raised |-> NoneVal, balance |-> NoneInt]

\* get_all_akahu when Akahu holds total transactions and the request number
\* fail_at raises (0: none does): the number of transactions in the frame it
\* returns, NoneInt for None.  A request error breaks the loop and what was
\* fetched so far is returned.
get_all_akahu(total, fail_at) ==
    LET requests == IF total = 0 THEN 1 ELSE total
    IN  IF fail_at = 0 \/ fail_at > requests THEN total
        ELSE IF fail_at = 1 THEN NoneInt
        ELSE fail_at - 1

\* get_all_akahu returned every transaction Akahu holds.
FetchedAll(total, fail_at) == get_all_akahu(total, fail_at) = total

\* akahu_df is not None and not akahu_df.empty
HasTransactions(df) == df # NoneInt /\ df > 0

\* What one loop iteration of a sync function did: the exception it raised,
\* whether the account joined the successful set, the requests sent to the
\* target provider, the entry as the iteration left it in memory, and what it
\* observed of the remote services.
NoLog ==
    [visited |-> FALSE, raised |-> NoneVal, balance |-> NoneInt,
     fetched |-> NoneInt, complete |-> TRUE, accepted |-> TRUE]
Iteration(raised_, success, requests, entry, log) ==
    [raised |-> raised_, success |-> success, sent |-> requests, entry |-> entry,
     log |-> [log EXCEPT !.visited = TRUE, !.raised = raised_]]

\* load_transactions_into_ynab: a request error is logged and None returned.
load_transactions_into_ynab(push) == [raised |-> NoneVal, accepted |-> push = "ok"]

\* load_transactions_into_actual: a failed reconcile is logged and raised
\* again; otherwise the entry in memory gets actual_synced_datetime.
load_transactions_into_actual(entry, push, t) ==
    IF push = "ok"
    THEN [raised |-> NoneVal, entry |-> Update(entry, [actual_synced_datetime |-> t])]
    ELSE [raised |-> "ReconcileError", entry |-> entry]

\* handle_tracking_account_actual: the three subscripts before the try raise
\* KeyError; inside the try everything is caught, so a None balance or a
\* failed create_transaction sends no adjustment.
handle_tracking_account_actual(entry, differs) ==
    IF ~({"akahu_id", "actual_account_id", "akahu_name"} \subseteq DOMAIN entry)
    THEN [raised |-> "KeyError", adjusted |-> FALSE]
    ELSE [raised |-> NoneVal,
          adjusted |-> /\ Get(entry, "akahu_balance", NoneInt) # NoneInt
                       /\ differs]

\* One iteration of the loop of sync_to_ynab in modules/sync_handler.py.
sync_to_ynab_step(entry, env, t) ==
    IF IsDoNotMap(entry, "ynab") THEN Iteration(NoneVal, FALSE, {}, entry, NoLog)
    ELSE IF ~(HasId(entry, "ynab_budget_id") /\ HasId(entry, "ynab_account_id"))
    THEN Iteration(NoneVal, FALSE, {}, entry, NoLog)
    ELSE IF AccountTypeOf(entry) = "Tracking"
    THEN LET b == get_akahu_balance(env.balance)
         IN  IF b.raised # NoneVal
             THEN Iteration(b.raised, FALSE, {}, entry, NoLog)
             \* get_ynab_balance(ynab_budget_id, ynab_account_id) is called
             \* with four arguments
             ELSE Iteration("TypeError", FALSE, {},
                            Update(entry, [akahu_balance |-> b.balance]),
                            [NoLog EXCEPT !.balance = b.balance])
    ELSE IF AccountTypeOf(entry) = "On Budget"
    THEN LET df == get_all_akahu(env.total, env.fail_at)
             log == [NoLog EXCEPT !.fetched = df,
                                  !.complete = FetchedAll(env.total, env.fail_at)]
         IN  IF HasTransactions(df)
             THEN Iteration(NoneVal, TRUE, {"transactions"}, entry,
                      [log EXCEPT !.accepted =
                          load_transactions_into_ynab(env.push).accepted])
             ELSE Iteration(NoneVal, FALSE, {}, entry, log)
    ELSE Iteration(NoneVal, FALSE, {}, entry, NoLog)

\* One iteration of the loop of sync_to_ab in modules/sync_handler.py.
sync_to_ab_step_modules(entry, env, t) ==
    IF IsDoNotMap(entry, "actual") THEN Iteration(NoneVal, FALSE, {}, entry, NoLog)
    ELSE IF ~(HasId(entry, "actual_budget_id") /\ HasId(entry, "actual_account_id"))
    THEN Iteration(NoneVal, FALSE, {}, entry, NoLog)
    ELSE
      LET b == get_akahu_balance(env.balance)
          with_balance == Update(entry, [akahu_balance |-> b.balance])
          blog == [NoLog EXCEPT !.balance = b.balance]
          commit == IF env.commit = "ok" THEN NoneVal ELSE "CommitError"
      IN  IF b.raised # NoneVal THEN Iteration(b.raised, FALSE, {}, entry, NoLog)
          ELSE IF AccountTypeOf(entry) = "Tracking"
          THEN LET h == handle_tracking_account_actual(with_balance, env.differs)
               IN  IF h.raised # NoneVal
                   THEN Iteration(h.raised, FALSE, {}, with_balance, blog)
                   ELSE Iteration(commit, TRUE,
                                  IF h.adjusted THEN {"adjustment"} ELSE {},
                                  with_balance, blog)
          ELSE IF AccountTypeOf(entry) = "On Budget"
          THEN LET df == get_all_akahu(env.total, env.fail_at)
                   log == [blog EXCEPT !.fetched = df,
                                       !.complete = FetchedAll(env.total, env.fail_at)]
               IN  IF HasTransactions(df)
                   THEN LET l == load_transactions_into_actual(with_balance, env.push, t)
                        IN  IF l.raised # NoneVal
                            THEN Iteration(l.raised, FALSE, {"transactions"}, l.entry,
                                           [log EXCEPT !.accepted = FALSE])
                            ELSE Iteration(commit, TRUE, {"transactions"}, l.entry, log)
                   ELSE Iteration(NoneVal, FALSE, {}, with_balance, log)
          ELSE Iteration(NoneVal, FALSE, {}, with_balance, blog)

\* One iteration of the loop of sync_to_ab in akahu_to_budget.py: the balance
\* is fetched and the Tracking branch taken before any look at
\* actual_do_not_map; there is no successful set.
sync_to_ab_step_script(entry, env, t) ==
    LET b == get_akahu_balance(env.balance)
        with_balance == Update(entry, [akahu_balance |-> b.balance])
        blog == [NoLog EXCEPT !.balance = b.balance]
    IN  IF b.raised # NoneVal THEN Iteration(b.raised, FALSE, {}, entry, NoLog)
        ELSE IF AccountTypeOf(entry) = "Tracking"
        THEN LET h == handle_tracking_account_actual(with_balance, env.differs)
             IN  Iteration(h.raised, FALSE,
                           IF h.adjusted THEN {"adjustment"} ELSE {},
                           with_balance, blog)
        ELSE IF AccountTypeOf(entry) = "On Budget"
        THEN IF IsDoNotMap(entry, "actual")
             THEN Iteration(NoneVal, FALSE, {}, with_balance, blog)
             ELSE IF ~(HasId(entry, "actual_budget_id") /\ HasId(entry, "actual_account_id"))
             THEN Iteration(NoneVal, FALSE, {}, with_balance, blog)
             ELSE LET df == get_all_akahu(env.total, env.fail_at)
                      log == [blog EXCEPT !.fetched = df,
                                          !.complete = FetchedAll(env.total, env.fail_at)]
                  IN  IF HasTransactions(df)
                      THEN LET l == load_transactions_into_actual(with_balance, env.push, t)
                           IN  Iteration(l.raised, FALSE, {"transactions"}, l.entry,
                                         [log EXCEPT !.accepted = l.raised = NoneVal])
                      ELSE Iteration(NoneVal, FALSE, {}, with_balance, log)
        ELSE Iteration(NoneVal, FALSE, {}, with_balance, blog)

sync_step(which, P, entry, env, t) ==
    IF P = "ynab" THEN sync_to_ynab_step(entry, env, t)
    ELSE IF which = "modules" THEN sync_to_ab_step_modules(entry, env, t)
    ELSE sync_to_ab_step_script(entry, env, t)

\* update_mapping_timestamps: the mapping is loaded from the file, the mark of
\* every successful account that is not DoNotMap is set to the current time,
\* and the document is saved; the entries in memory are not looked at.
update_mapping_timestamps(document, successful, P, current_time) ==
    [document EXCEPT !.mapping =
        [akahu_id \in DOMAIN document.mapping |->
            IF akahu_id \in successful /\ ~IsDoNotMap(document.mapping[akahu_id], P)
            THEN Update(document.mapping[akahu_id],
                        IF P = "actual" THEN [actual_synced_datetime |-> current_time]
                        ELSE [ynab_synced_datetime |-> current_time])
            ELSE document.mapping[akahu_id]]]

\* ------------------------------------------------------- the program state

VARIABLES
    impl,                     \* which file's functions the pass runs
    now,                      \* datetime.now() of the current pass
    pc,                       \* position of the pass in main()
    store,                    \* content of akahu_budget_mapping.json
    latest_akahu_accounts, latest_actual_accounts, latest_ynab_accounts,
    existing_akahu_accounts, existing_actual_accounts, existing_ynab_accounts,
    existing_mapping,
    akahu_accounts, actual_accounts, ynab_accounts,   \* the combined collections
    new_mapping,
    prompted,                 \* the deletion prompt was shown in this pass
    confirmation,             \* what the user replied to it
    matches,                  \* result of check_for_changes
    first_loaded,             \* history: first persisted date_first_loaded per id
    declined,                 \* history: the previous pass declined and saved
    deleted_accounts,         \* the deletion list of a direct combine_accounts call
    asked,                    \* <<akahu_id, P>> prompted by match_accounts in this pass
    skipped,                  \* history: those the previous pass left without decision
    account_type,             \* provider of the match_accounts or sync call in progress
    todo,                     \* source accounts its loop has still to visit
    last,                     \* what its last iteration did
    raised,                   \* the exception a direct call let reach its caller
    data_to_save,             \* the argument of a direct save_mapping call
    file_before,              \* the mapping file when that call began
    remote,                   \* what the file system or the remote services do
    successful_syncs,         \* the successful set of the sync call in progress
    sent                      \* what a sync call sent to its target provider

fetched == <<latest_akahu_accounts, latest_actual_accounts, latest_ynab_accounts>>
loaded == <<existing_akahu_accounts, existing_actual_accounts,
            existing_ynab_accounts, existing_mapping>>
merged == <<akahu_accounts, actual_accounts, ynab_accounts, new_mapping,
            prompted, confirmation>>
history == <<first_loaded, declined, deleted_accounts>>
visits == <<asked, skipped>>
matching == <<account_type, todo, last>>
direct == <<raised, data_to_save, file_before, remote, successful_syncs, sent>>
vars == <<impl, now, pc, store, fetched, loaded, merged, matches, history,
          visits, matching, direct>>

CollectionKeys == {"akahu_accounts", "actual_accounts", "ynab_accounts"}

\* A collection as a pass at time 0 that fetched every account persisted it.
StoredAll(provider) ==
    [i \in Ids(provider) |->
        Update(FetchedAccount(provider, i, 0), [date_first_loaded |-> 0])]

\* The mappings a first pass at time 0 leaves: match_accounts for YNAB, then
\* for Actual, over every account, for every sequence of user replies.
InitMappings ==
    LET after_ynab == {r.mapping : r \in {o \in match_accounts(
                            "modules", EmptyDict, StoredAll("akahu"),
                            StoredAll("ynab"), "ynab", 0) : ~o.raised}}
    IN  UNION {{r.mapping : r \in {o \in match_accounts(
                            "modules", m, StoredAll("akahu"),
                            StoredAll("actual"), "actual", 0) : ~o.raised}} :
               m \in after_ynab}

InitStores ==
    {[akahu_accounts |-> StoredAll("akahu"),
      actual_accounts |-> StoredAll("actual"),
      ynab_accounts |-> StoredAll("ynab"),
      mapping |-> m] : m \in InitMappings}

\* The stores of InitStores in which the first pass settled everything (each
\* source account has a YNAB account and an Actual account or DoNotMap), and
\* the one in which it settled nothing.
IsSettled(m) ==
    \/ m = EmptyDict
    \/ \A a \in AkahuIds :
          /\ a \in DOMAIN m
          /\ "ynab_account_id" \in DOMAIN m[a]
          /\ \/ "actual_account_id" \in DOMAIN m[a]
             \/ "actual_do_not_map" \in DOMAIN m[a]

SettledStores == {s \in InitStores : IsSettled(s.mapping)}

\* The references of a mapping to accounts that a collection no longer holds:
\* <<akahu_id, "akahu">> for a key, <<akahu_id, P>> for a P_account_id.
StaleReferences(mapping, akahu, actual, ynab) ==
    {<<k, "akahu">> : k \in {j \in DOMAIN mapping : j \notin DOMAIN akahu}}
    \cup {<<k, "actual">> : k \in {j \in DOMAIN mapping :
            /\ "actual_account_id" \in DOMAIN mapping[j]
            /\ mapping[j].actual_account_id \notin DOMAIN actual}}
    \cup {<<k, "ynab">> : k \in {j \in DOMAIN mapping :
            /\ "ynab_account_id" \in DOMAIN mapping[j]
            /\ mapping[j].ynab_account_id \notin DOMAIN ynab}}

\* The entry of akahu_id holds neither P_account_id nor P_do_not_map.
IsUndecided(mapping, akahu_id, P) ==
    LET entry == Get(mapping, akahu_id, EmptyDict)
    IN  AccountIdKey(P) \notin DOMAIN entry /\ DoNotMapKey(P) \notin DOMAIN entry

\* The record of a loop iteration of match_accounts, before any iteration.
NoLast ==
    [akahu_id |-> NoneVal, user_input |-> "", response |-> NoneVal,
     fuzzy |-> [best |-> NoneVal, confidence |-> 0],
     suggestion |-> IntSuggestion(0), before |-> EmptyDict, t |-> 0,
     suggested |-> FALSE, asked |-> FALSE, raised |-> FALSE]

\* No match_accounts call is in progress and none has prompted.
NoMatching ==
    /\ asked = {}
    /\ skipped = {}
    /\ account_type = NoneVal
    /\ todo = << >>
    /\ last = NoLast

\* No direct call of a store, fetch or sync function is in progress.
NoDirect ==
    /\ raised = NoneVal
    /\ data_to_save = EmptyDict
    /\ file_before = EmptyDict
    /\ remote = NoneVal
    /\ successful_syncs = {}
    /\ sent = {}

NoDecline == [declined |-> FALSE, akahu |-> {}, actual |-> {}, ynab |-> {}]

FirstLoaded(old, document) ==
    [key \in CollectionKeys |->
        [i \in (DOMAIN old[key]) \cup (DOMAIN document[key]) |->
            IF i \in DOMAIN old[key] THEN old[key][i]
            ELSE document[key][i].date_first_loaded]]

\* No run of main() is in progress: its locals do not exist.
NoLocals ==
    /\ latest_akahu_accounts = EmptyDict
    /\ latest_actual_accounts = EmptyDict
    /\ latest_ynab_accounts = EmptyDict
    /\ existing_akahu_accounts = EmptyDict
    /\ existing_actual_accounts = EmptyDict
    /\ existing_ynab_accounts = EmptyDict
    /\ existing_mapping = EmptyDict
    /\ akahu_accounts = EmptyDict
    /\ actual_accounts = EmptyDict
    /\ ynab_accounts = EmptyDict
    /\ new_mapping = EmptyDict
    /\ prompted = FALSE
    /\ confirmation = NoneVal
    /\ matches = <<TRUE, TRUE, TRUE>>

\* The run of main() ends: its locals are gone.
ResetLocals ==
    /\ latest_akahu_accounts' = EmptyDict
    /\ latest_actual_accounts' = EmptyDict
    /\ latest_ynab_accounts' = EmptyDict
    /\ existing_akahu_accounts' = EmptyDict
    /\ existing_actual_accounts' = EmptyDict
    /\ existing_ynab_accounts' = EmptyDict
    /\ existing_mapping' = EmptyDict
    /\ akahu_accounts' = EmptyDict
    /\ actual_accounts' = EmptyDict
    /\ ynab_accounts' = EmptyDict
    /\ new_mapping' = EmptyDict
    /\ prompted' = FALSE
    /\ confirmation' = NoneVal
    /\ matches' = <<TRUE, TRUE, TRUE>>

Init ==
    /\ impl \in Impls
    /\ now = 0
    /\ pc = "idle"
    /\ store \in SettledStores
    /\ NoLocals
    /\ first_loaded = FirstLoaded([key \in CollectionKeys |-> EmptyDict], store)
    /\ declined = NoDecline
    /\ deleted_accounts = {}
    /\ NoDirect
    /\ NoMatching

\* main(), lines 650-671: a new run starts and fetches the Actual and the YNAB
\* accounts.
FetchTargets ==
    /\ pc = "idle"
    /\ now < MaxPasses
    /\ now' = now + 1
    /\ latest_actual_accounts' \in FetchChoices("actual")
    /\ latest_ynab_accounts' \in FetchChoices("ynab")
    /\ pc' = "fetched_targets"
    /\ UNCHANGED <<direct, visits, matching, impl, store, latest_akahu_accounts, loaded, merged, matches,
                   history>>

\* main(), line 674: load_existing_mapping() on a store that holds the four keys.
Load ==
    /\ pc = "fetched_targets"
    /\ existing_akahu_accounts' = store.akahu_accounts
    /\ existing_actual_accounts' = store.actual_accounts
    /\ existing_ynab_accounts' = store.ynab_accounts
    /\ existing_mapping' = store.mapping
    /\ pc' = "loaded"
    /\ UNCHANGED <<direct, visits, matching, impl, now, store, fetched, merged, matches, history>>

\* main(), line 677: fetch_akahu_accounts().
FetchAkahu ==
    /\ pc = "loaded"
    /\ latest_akahu_accounts' \in FetchChoices("akahu")
    /\ pc' = "fetched"
    /\ UNCHANGED <<direct, visits, matching, impl, now, store, latest_actual_accounts, latest_ynab_accounts,
                   loaded, merged, matches, history>>

\* main(), lines 680-695: merge_and_update_mapping, whose result main assigns
\* to existing_mapping and copies to new_mapping.  input() is called only
\* when the prompt is shown.  combine_accounts writes date_first_loaded into
\* the records of the latest collections, which the combined collections
\* share.  An exception ends the pass in main's handler.
Merge ==
    /\ pc = "fetched"
    /\ \E reply \in Replies :
        LET r == merge_and_update_mapping(
                    impl, existing_mapping, latest_akahu_accounts,
                    latest_actual_accounts, latest_ynab_accounts,
                    existing_akahu_accounts, existing_actual_accounts,
                    existing_ynab_accounts, now, reply)
        IN  /\ prompted' = r.prompted
            /\ confirmation' = IF r.prompted THEN reply ELSE NoneVal
            /\ latest_akahu_accounts' = r.combined_akahu_accounts
            /\ latest_actual_accounts' = r.combined_actual_accounts
            /\ latest_ynab_accounts' = r.combined_ynab_accounts
            /\ IF r.raised
               THEN /\ pc' = "aborted"
                    /\ UNCHANGED <<akahu_accounts, actual_accounts, ynab_accounts,
                                   existing_mapping, new_mapping>>
               ELSE /\ pc' = "merged"
                    /\ akahu_accounts' = r.combined_akahu_accounts
                    /\ actual_accounts' = r.combined_actual_accounts
                    /\ ynab_accounts' = r.combined_ynab_accounts
                    /\ existing_mapping' = r.updated_mapping
                    /\ new_mapping' = r.updated_mapping
    /\ UNCHANGED <<direct, visits, matching, impl, now, store, existing_akahu_accounts,
                   existing_actual_accounts, existing_ynab_accounts, matches,
                   history>>

\* main() calling match_accounts whatever check_for_changes returned.
Check_always_match ==
    /\ pc = "merged"
    /\ matches' = check_for_changes(
                    impl, existing_akahu_accounts, latest_akahu_accounts,
                    existing_actual_accounts, latest_actual_accounts,
                    existing_ynab_accounts, latest_ynab_accounts)
    /\ pc' = "match_ynab"
    /\ UNCHANGED <<direct, visits, matching, impl, now, store, fetched, loaded, merged, history>>

\* main(), lines 698-702: check_for_changes gates the matching.
Check ==
    /\ pc = "merged"
    /\ matches' = check_for_changes(
                    impl, existing_akahu_accounts, latest_akahu_accounts,
                    existing_actual_accounts, latest_actual_accounts,
                    existing_ynab_accounts, latest_ynab_accounts)
    /\ pc' = IF matches'[1] /\ matches'[2] /\ matches'[3]
             THEN "matched" ELSE "match_ynab"
    /\ UNCHANGED <<direct, visits, matching, impl, now, store, fetched, loaded, merged, history>>

\* main(), line 705: match_accounts(new_mapping, akahu_accounts, ynab_accounts,
\* "ynab").  The call leaves seq on the target records.
MatchYnab ==
    /\ pc = "match_ynab"
    /\ \E r \in match_accounts(impl, new_mapping, akahu_accounts, ynab_accounts,
                               "ynab", now) :
        /\ new_mapping' = r.mapping
        /\ asked' = asked \cup {<<k, "ynab">> : k \in r.asked}
        /\ pc' = IF r.raised THEN "aborted" ELSE "match_actual"
    /\ ynab_accounts' = AssignSeq(ynab_accounts)
    /\ UNCHANGED <<direct, matching, impl, now, store, fetched, loaded, akahu_accounts,
                   actual_accounts, prompted, confirmation, matches, history,
                   skipped>>

\* main(), line 709: match_accounts(..., actual_accounts, "actual").
MatchActual ==
    /\ pc = "match_actual"
    /\ \E r \in match_accounts(impl, new_mapping, akahu_accounts, actual_accounts,
                               "actual", now) :
        /\ new_mapping' = r.mapping
        /\ asked' = asked \cup {<<k, "actual">> : k \in r.asked}
        /\ pc' = IF r.raised THEN "aborted" ELSE "matched"
    /\ actual_accounts' = AssignSeq(actual_accounts)
    /\ UNCHANGED <<direct, matching, impl, now, store, fetched, loaded, akahu_accounts,
                   ynab_accounts, prompted, confirmation, matches, history,
                   skipped>>

\* main(), lines 712-720: remove_seq and save_mapping; the run ends and its
\* locals with it.
Save ==
    /\ pc = "matched"
    /\ store' = remove_seq([akahu_accounts |-> akahu_accounts,
                            actual_accounts |-> actual_accounts,
                            ynab_accounts |-> ynab_accounts,
                            mapping |-> new_mapping])
    /\ first_loaded' = FirstLoaded(first_loaded, store')
    /\ declined' = [declined |-> /\ prompted
                                 /\ ~IsConfirmation(confirmation)
                                 /\ StaleReferences(new_mapping, akahu_accounts,
                                        actual_accounts, ynab_accounts) # {},
                    akahu |-> DOMAIN akahu_accounts,
                    actual |-> DOMAIN actual_accounts,
                    ynab |-> DOMAIN ynab_accounts]
    /\ skipped' = {v \in asked : IsUndecided(new_mapping, v[1], v[2])}
    /\ asked' = {}
    /\ pc' = "idle"
    /\ ResetLocals
    /\ UNCHANGED <<direct, matching, impl, now, deleted_accounts>>

\* main(), lines 722-723: the handler logs the exception; nothing is saved.
Abort ==
    /\ pc = "aborted"
    /\ declined' = NoDecline
    /\ skipped' = {}
    /\ asked' = {}
    /\ pc' = "idle"
    /\ ResetLocals
    /\ UNCHANGED <<direct, matching, impl, now, store, first_loaded, deleted_accounts>>

Next ==
    \/ FetchTargets
    \/ Load
    \/ FetchAkahu
    \/ Merge
    \/ Check
    \/ MatchYnab
    \/ MatchActual
    \/ Save
    \/ Abort

Spec == Init /\ [][Next]_vars

\* Runs of main() one after the other, at most MaxGatePasses of them.
MaxGatePasses == 1

NextGate ==
    \/ now < MaxGatePasses /\ FetchTargets
    \/ Load
    \/ FetchAkahu
    \/ Merge
    \/ Check
    \/ MatchYnab
    \/ MatchActual
    \/ Save
    \/ Abort

SpecGate == Init /\ [][NextGate]_vars

\* A run of main() up to the return of merge_and_update_mapping, from every
\* store of InitStores.
InitMerge ==
    /\ impl \in Impls
    /\ now = 0
    /\ pc = "idle"
    /\ store \in InitStores
    /\ NoLocals
    /\ first_loaded = FirstLoaded([key \in CollectionKeys |-> EmptyDict], store)
    /\ declined = NoDecline
    /\ deleted_accounts = {}
    /\ NoDirect
    /\ NoMatching

NextMerge ==
    \/ FetchTargets
    \/ Load
    \/ FetchAkahu
    \/ Merge

SpecMerge == InitMerge /\ [][NextMerge]_vars

\* ------------------------------------- match_accounts, one iteration a step

\* Number of match_accounts calls and merges in a row.
MaxCalls == 2

Targets(P) == IF P = "actual" THEN actual_accounts ELSE ynab_accounts

\* No mapping yet; every account of every provider is in its collection.
InitMatch ==
    /\ impl \in Impls
    /\ now = 0
    /\ pc = "match_idle"
    /\ store = [akahu_accounts |-> EmptyDict, actual_accounts |-> EmptyDict,
                ynab_accounts |-> EmptyDict, mapping |-> EmptyDict]
    /\ latest_akahu_accounts = EmptyDict
    /\ latest_actual_accounts = EmptyDict
    /\ latest_ynab_accounts = EmptyDict
    /\ existing_akahu_accounts = EmptyDict
    /\ existing_actual_accounts = EmptyDict
    /\ existing_ynab_accounts = EmptyDict
    /\ existing_mapping = EmptyDict
    /\ akahu_accounts = StoredAll("akahu")
    /\ actual_accounts = StoredAll("actual")
    /\ ynab_accounts = StoredAll("ynab")
    /\ new_mapping = EmptyDict
    /\ prompted = FALSE
    /\ confirmation = NoneVal
    /\ matches = <<TRUE, TRUE, TRUE>>
    /\ first_loaded = [key \in CollectionKeys |-> EmptyDict]
    /\ declined = NoDecline
    /\ deleted_accounts = {}
    /\ NoDirect
    /\ NoMatching

\* match_accounts is called for a provider: the targets get their seq and the
\* loop starts over the source accounts in name order.
BeginMatch ==
    /\ pc = "match_idle"
    /\ now < MaxCalls
    /\ now' = now + 1
    /\ \E P \in Providers :
        /\ account_type' = P
        /\ actual_accounts' = IF P = "actual" THEN AssignSeq(actual_accounts)
                               ELSE actual_accounts
        /\ ynab_accounts' = IF P = "ynab" THEN AssignSeq(ynab_accounts)
                             ELSE ynab_accounts
    /\ todo' = SortedIds(akahu_accounts, DOMAIN akahu_accounts)
    /\ last' = NoLast
    /\ pc' = "matching"
    /\ UNCHANGED <<direct, impl, store, fetched, loaded, akahu_accounts, new_mapping,
                   prompted, confirmation, matches, history, visits>>

\* One iteration of the loop: the skip test, the suggestion, the prompt and
\* what the answer writes.  Nothing is read from the user or from the
\* suggestion strategy when the iteration does not get there.
MatchIteration ==
    /\ pc = "matching"
    /\ todo # << >>
    /\ \E user_input \in UserInputs,
          suggestion \in Suggestions(impl, Targets(account_type), new_mapping,
                                     account_type) :
        LET akahu_id == Head(todo)
            st == match_step(impl, MatchState(new_mapping), akahu_accounts,
                             Targets(account_type), account_type, akahu_id,
                             user_input, suggestion, now)
        IN  /\ new_mapping' = st.mapping
            /\ last' = [akahu_id |-> akahu_id,
                        user_input |-> IF akahu_id \in st.asked
                                       THEN user_input ELSE "",
                        response |-> NoneVal,
                        fuzzy |-> NoLast.fuzzy,
                        suggestion |-> IF akahu_id \in st.suggested
                                       THEN suggestion ELSE NoLast.suggestion,
                        before |-> new_mapping,
                        t |-> now,
                        suggested |-> akahu_id \in st.suggested,
                        asked |-> akahu_id \in st.asked,
                        raised |-> st.raised]
            /\ pc' = IF st.raised THEN "match_raised" ELSE "matching"
    /\ todo' = Tail(todo)
    /\ UNCHANGED <<direct, impl, now, store, fetched, loaded, akahu_accounts,
                   actual_accounts, ynab_accounts, prompted, confirmation,
                   matches, history, visits, account_type>>

\* The loop is over: match_accounts returns the mapping.
EndMatch ==
    /\ pc = "matching"
    /\ todo = << >>
    /\ pc' = "match_idle"
    /\ UNCHANGED <<direct, impl, now, store, fetched, loaded, merged, matches, history,
                   visits, matching>>

\* Between two match_accounts calls a new pass merges a new fetch into the
\* mapping and the collections (merge_and_update_mapping).
Remerge ==
    /\ pc = "match_idle"
    /\ now < MaxCalls
    /\ now' = now + 1
    /\ \E reply \in Replies, latest_akahu \in FetchChoices("akahu"),
          latest_actual \in FetchChoices("actual"),
          latest_ynab \in FetchChoices("ynab") :
        LET r == merge_and_update_mapping(
                    impl, new_mapping, latest_akahu, latest_actual, latest_ynab,
                    RemoveSeqCollection(akahu_accounts),
                    RemoveSeqCollection(actual_accounts),
                    RemoveSeqCollection(ynab_accounts), now', reply)
        IN  IF r.raised
               THEN /\ pc' = "merge_raised"
                    /\ UNCHANGED <<akahu_accounts, actual_accounts, ynab_accounts,
                                   new_mapping>>
               ELSE /\ pc' = "match_idle"
                    /\ akahu_accounts' = r.combined_akahu_accounts
                    /\ actual_accounts' = r.combined_actual_accounts
                    /\ ynab_accounts' = r.combined_ynab_accounts
                    /\ new_mapping' = r.updated_mapping
    /\ UNCHANGED <<direct, impl, store, fetched, loaded, prompted, confirmation, matches,
                   history, visits, matching>>

NextMatch ==
    \/ BeginMatch
    \/ MatchIteration
    \/ EndMatch
    \/ Remerge

SpecMatch == InitMatch /\ [][NextMatch]_vars

\* -------------------------------- get_openai_match_suggestion on its own

\* A call of get_openai_match_suggestion for a prompted source account, on any
\* mapping a first pass can have left and the targets of either provider.
InitSuggest ==
    /\ impl \in Impls
    /\ now = 1
    /\ pc = "suggest"
    /\ store = [akahu_accounts |-> EmptyDict, actual_accounts |-> EmptyDict,
                ynab_accounts |-> EmptyDict, mapping |-> EmptyDict]
    /\ latest_akahu_accounts = EmptyDict
    /\ latest_actual_accounts = EmptyDict
    /\ latest_ynab_accounts = EmptyDict
    /\ existing_akahu_accounts = EmptyDict
    /\ existing_actual_accounts = EmptyDict
    /\ existing_ynab_accounts = EmptyDict
    /\ existing_mapping = EmptyDict
    /\ akahu_accounts = StoredAll("akahu")
    /\ actual_accounts = AssignSeq(StoredAll("actual"))
    /\ ynab_accounts = AssignSeq(StoredAll("ynab"))
    /\ new_mapping \in InitMappings
    /\ prompted = FALSE
    /\ confirmation = NoneVal
    /\ matches = <<TRUE, TRUE, TRUE>>
    /\ first_loaded = [key \in CollectionKeys |-> EmptyDict]
    /\ declined = NoDecline
    /\ deleted_accounts = {}
    /\ NoDirect
    /\ asked = {}
    /\ skipped = {}
    /\ account_type \in Providers
    /\ todo = << >>
    /\ last = NoLast

\* get_openai_match_suggestion(akahu_account, target_accounts_list, mapping,
\* target_account_key) for every outcome of the external call and of
\* process.extractOne.
Suggest ==
    /\ pc = "suggest"
    /\ \E response \in OpenAIResponses,
          fuzzy \in FuzzyOutcomes(Targets(account_type), new_mapping,
                                  account_type) :
        last' = [NoLast EXCEPT
                    !.response = response,
                    !.fuzzy = fuzzy,
                    !.suggested = TRUE,
                    !.suggestion = get_openai_match_suggestion(
                                       impl, response, fuzzy,
                                       Targets(account_type), new_mapping,
                                       account_type)]
    /\ pc' = "suggested"
    /\ UNCHANGED <<direct, impl, now, store, fetched, loaded, merged, matches, history,
                   visits, account_type, todo>>

NextSuggest == Suggest

SpecSuggest == InitSuggest /\ [][NextSuggest]_vars

\* ---------------------------- save_mapping and load_existing_mapping on their own

\* A complete document without seq keys.
PlainDocument ==
    [akahu_accounts |-> [i \in {"a1"} |-> FetchedAccount("akahu", i, 0)],
     actual_accounts |-> EmptyDict,
     ynab_accounts |-> [i \in {"y1"} |-> FetchedAccount("ynab", i, 0)],
     mapping |-> [i \in {"a1"} |-> [akahu_id |-> "a1", ynab_account_id |-> "y1"]]]

\* PlainDocument with a seq key at each of the given depths: a top-level key,
\* a key of a collection, a field of a record.
WithSeq(depths) ==
    LET record == IF "record" \in depths
                  THEN Update(PlainDocument.ynab_accounts.y1, [seq |-> 1])
                  ELSE PlainDocument.ynab_accounts.y1
        collection == IF "collection" \in depths
                      THEN [i \in {"y1", "seq"} |-> record]
                      ELSE [i \in {"y1"} |-> record]
        document == Update(PlainDocument, [ynab_accounts |-> collection])
    IN  IF "top" \in depths THEN Update(document, [seq |-> EmptyDict]) ELSE document

\* The arguments a direct save_mapping call may be given: documents with seq
\* keys at any depth, complete or lacking a required key, with or without a
\* value that json cannot encode.
SaveChoices ==
    LET complete == {WithSeq(depths) : depths \in SUBSET {"top", "collection", "record"}}
        lacking == {PopAll(d, {k}) : d \in complete, k \in {"mapping", "akahu_accounts"}}
        object == {Update(d, [akahu_accounts |->
                        [i \in {"a1"} |-> Update(d.akahu_accounts.a1,
                                                 [fetched_at |-> 0])]]) :
                   d \in complete}
    IN  complete \cup lacking \cup object

\* The mapping file before the call: absent, empty, or holding an earlier
\* document, complete or lacking a required key.
FileChoices ==
    LET earlier == Update(PlainDocument, [mapping |-> EmptyDict])
    IN  {MissingFile, TruncatedFile, FileOf(json_dumps(earlier).text)}
        \cup {FileOf(json_dumps(PopAll(earlier, {k})).text) : k \in RequiredKeys}

InitStore ==
    /\ impl \in Impls
    /\ now = 1
    /\ pc = "store_idle"
    /\ store \in FileChoices
    /\ NoLocals
    /\ first_loaded = [key \in CollectionKeys |-> EmptyDict]
    /\ declined = NoDecline
    /\ deleted_accounts = {}
    /\ raised = NoneVal
    /\ data_to_save \in SaveChoices
    /\ file_before = store
    /\ remote = NoneVal
    /\ successful_syncs = {}
    /\ sent = {}
    /\ NoMatching

\* save_mapping(data_to_save) up to and including open(mapping_file, "w"):
\* json.dumps, json.loads and the required-keys check, then the open, which
\* truncates the file or raises OSError.  The try block catches everything.
SaveOpen ==
    /\ pc = "store_idle"
    /\ file_before' = store
    /\ IF save_mapping_validate(data_to_save) # NoneVal
       THEN /\ pc' = "save_failed"
            /\ remote' = NoneVal
            /\ store' = store
       ELSE \E outcome \in {"ok", "OSError"} :
                /\ remote' = outcome
                /\ IF outcome = "ok"
                   THEN pc' = "save_writing" /\ store' = TruncatedFile
                   ELSE pc' = "save_failed" /\ store' = store
    /\ UNCHANGED <<raised, data_to_save, successful_syncs, sent>>
    /\ UNCHANGED <<visits, matching, impl, now, fetched, loaded, merged, matches, history>>

\* save_mapping, f.write(serialized_data) and the close of the file: the text
\* is written whole, or OSError breaks the write off with nothing or a part of
\* the text in the file.  The try block catches the exception.
SaveWrite ==
    /\ pc = "save_writing"
    /\ \E outcome \in {"ok", "OSError"} :
          /\ remote' = outcome
          /\ IF outcome = "ok"
             THEN /\ pc' = "saved"
                  /\ store' = FileOf(json_dumps(data_to_save).text)
             ELSE /\ pc' = "save_failed"
                  /\ store' \in {TruncatedFile,
                                 PartialFile(json_dumps(data_to_save).text)}
    /\ UNCHANGED <<raised, data_to_save, file_before, successful_syncs, sent>>
    /\ UNCHANGED <<visits, matching, impl, now, fetched, loaded, merged, matches, history>>

\* load_existing_mapping(), on the file as it is found or after a save.
LoadMapping ==
    /\ pc \in {"store_idle", "saved", "save_failed"}
    /\ LET r == load_existing_mapping(impl, store)
       IN  /\ raised' = r.raised
           /\ existing_akahu_accounts' = r.akahu_accounts
           /\ existing_actual_accounts' = r.actual_accounts
           /\ existing_ynab_accounts' = r.ynab_accounts
           /\ existing_mapping' = r.mapping
    /\ pc' = IF pc = "saved" THEN "reloaded" ELSE "loaded"
    /\ UNCHANGED <<data_to_save, file_before, remote, successful_syncs, sent>>
    /\ UNCHANGED <<visits, matching, impl, now, store, fetched, merged, matches, history>>

NextStore ==
    \/ SaveOpen
    \/ SaveWrite
    \/ LoadMapping

SpecStore == InitStore /\ [][NextStore]_vars

\* --------------------------------------------------- the fetches on their own

\* An account as Akahu's API serves it.
AkahuItem(i, status) ==
    [k \in {"_id", "name", "balance", "status", "connection"} |->
        CASE k = "_id" -> i
          [] k = "name" -> AccountName("akahu", i)
          [] k = "balance" -> 0
          [] k = "status" -> status
          [] k = "connection" -> [name |-> "Bank"]]

\* The accounts a provider holds when it is asked: any subset of the
\* accounts, each active or inactive (Akahu), open or closed (the targets).
Served(provider) ==
    IF provider = "akahu"
    THEN {[i \in S |-> AkahuItem(i, status[i])] :
            S \in SUBSET AkahuIds, status \in [AkahuIds -> {"ACTIVE", "INACTIVE"}]}
    ELSE {[i \in S |-> Update(FetchedAccount(provider, i, 0), [closed |-> c[i]])] :
            S \in SUBSET Ids(provider), c \in [Ids(provider) -> BOOLEAN]}

InitFetch ==
    /\ impl \in Impls
    /\ now = 1
    /\ pc = "fetch_actual"
    /\ store = [akahu_accounts |-> EmptyDict, actual_accounts |-> EmptyDict,
                ynab_accounts |-> EmptyDict, mapping |-> EmptyDict]
    /\ NoLocals
    /\ first_loaded = [key \in CollectionKeys |-> EmptyDict]
    /\ declined = NoDecline
    /\ deleted_accounts = {}
    /\ raised = NoneVal
    /\ data_to_save = EmptyDict
    /\ file_before = EmptyDict
    /\ remote = [provider \in {"akahu", "actual", "ynab"} |-> NoneVal]
    /\ successful_syncs = {}
    /\ sent = {}
    /\ NoMatching

\* fetch_actual_accounts(actual), the first fetch of main().
FetchActualAccounts ==
    /\ pc = "fetch_actual"
    /\ \E kind \in {"ok", "ConnectionError"}, accounts \in Served("actual") :
          LET r == fetch_actual_accounts(kind, accounts)
          IN  /\ remote' = [remote EXCEPT !["actual"] = kind]
              /\ raised' = r.raised
              /\ latest_actual_accounts' = r.accounts
              /\ pc' = IF r.raised # NoneVal THEN "fetch_raised" ELSE "fetch_ynab"
    /\ UNCHANGED <<data_to_save, file_before, successful_syncs, sent>>
    /\ UNCHANGED <<visits, matching, impl, now, store, latest_akahu_accounts,
                   latest_ynab_accounts, loaded, merged, matches, history>>

\* fetch_ynab_accounts().
FetchYnabAccounts ==
    /\ pc = "fetch_ynab"
    /\ \E kind \in ResponseKinds, accounts \in Served("ynab") :
          LET r == fetch_ynab_accounts(impl, kind, accounts)
          IN  /\ remote' = [remote EXCEPT !["ynab"] = kind]
              /\ raised' = r.raised
              /\ latest_ynab_accounts' = r.accounts
              /\ pc' = IF r.raised # NoneVal THEN "fetch_raised" ELSE "fetch_akahu"
    /\ UNCHANGED <<data_to_save, file_before, successful_syncs, sent>>
    /\ UNCHANGED <<visits, matching, impl, now, store, latest_akahu_accounts,
                   latest_actual_accounts, loaded, merged, matches, history>>

\* fetch_akahu_accounts().
FetchAkahuAccounts ==
    /\ pc = "fetch_akahu"
    /\ \E kind \in ResponseKinds, items \in Served("akahu") :
          LET r == fetch_akahu_accounts(kind, items)
          IN  /\ remote' = [remote EXCEPT !["akahu"] = kind]
              /\ raised' = r.raised
              /\ latest_akahu_accounts' = r.accounts
              /\ pc' = IF r.raised # NoneVal THEN "fetch_raised" ELSE "fetch_done"
    /\ UNCHANGED <<data_to_save, file_before, successful_syncs, sent>>
    /\ UNCHANGED <<visits, matching, impl, now, store, latest_actual_accounts,
                   latest_ynab_accounts, loaded, merged, matches, history>>

NextFetch ==
    \/ FetchActualAccounts
    \/ FetchYnabAccounts
    \/ FetchAkahuAccounts

SpecFetch == InitFetch /\ [][NextFetch]_vars

\* ------------------------------------------------ the sync functions on their own

\* The entries a mapping may hold for a source account and the provider of the
\* sync call: confirmed or DoNotMap, On Budget or Tracking, or undecided.
SyncEntries(P, akahu_id) ==
    LET name == AccountName("akahu", akahu_id)
        target == CHOOSE i \in Ids(P) : TRUE
        mark == IF P = "actual" THEN [actual_synced_datetime |-> 0]
                ELSE [ynab_synced_datetime |-> 0]
    IN  {Update(Update(confirmed_fields_modules(P, akahu_id, name, target,
                                                AccountName(P, target), 0), mark),
                [account_type |-> ty]) : ty \in {"On Budget", "Tracking"}}
        \cup {Update(do_not_map_fields(P, akahu_id, name, 0), [account_type |-> ty]) :
                ty \in {"On Budget", "Tracking"}}
        \cup {[akahu_id |-> akahu_id, akahu_name |-> name]}

SyncMappings(P) ==
    {m \in [AkahuIds -> UNION {SyncEntries(P, i) : i \in AkahuIds}] :
        \A i \in AkahuIds : m[i] \in SyncEntries(P, i)}

\* What the remote services do during one loop iteration.
SyncEnvs ==
    [balance : {"ok", "http_error", "ConnectionError"},
     total : 0..MaxPages, fail_at : 0..MaxPages,
     push : {"ok", "fails"}, differs : BOOLEAN, commit : {"ok", "fails"}]

\* The caller has loaded the mapping file and calls sync_to_ynab or
\* sync_to_ab with the loaded mapping.
InitSync ==
    /\ impl \in Impls
    /\ account_type \in Providers
    /\ impl = "script" => account_type = "actual"
    /\ now = 1
    /\ pc = "syncing"
    /\ existing_mapping \in SyncMappings(account_type)
    /\ store = [akahu_accounts |-> StoredAll("akahu"),
                actual_accounts |-> StoredAll("actual"),
                ynab_accounts |-> StoredAll("ynab"),
                mapping |-> existing_mapping]
    /\ latest_akahu_accounts = EmptyDict
    /\ latest_actual_accounts = EmptyDict
    /\ latest_ynab_accounts = EmptyDict
    /\ existing_akahu_accounts = store.akahu_accounts
    /\ existing_actual_accounts = store.actual_accounts
    /\ existing_ynab_accounts = store.ynab_accounts
    /\ akahu_accounts = EmptyDict
    /\ actual_accounts = EmptyDict
    /\ ynab_accounts = EmptyDict
    /\ new_mapping = EmptyDict
    /\ prompted = FALSE
    /\ confirmation = NoneVal
    /\ matches = <<TRUE, TRUE, TRUE>>
    /\ first_loaded = [key \in CollectionKeys |-> EmptyDict]
    /\ declined = NoDecline
    /\ deleted_accounts = {}
    /\ raised = NoneVal
    /\ data_to_save = EmptyDict
    /\ file_before = store
    /\ remote = [i \in AkahuIds |-> NoLog]
    /\ successful_syncs = {}
    /\ sent = {}
    /\ asked = {}
    /\ skipped = {}
    /\ todo = SortedIds(StoredAll("akahu"), DOMAIN existing_mapping)
    /\ last = NoLast

\* One iteration of `for akahu_account_id, mapping_entry in mapping_list.items()`.
\* An exception leaves the function before update_mapping_timestamps.
SyncIteration ==
    /\ pc = "syncing"
    /\ todo # << >>
    /\ \E env \in SyncEnvs :
          LET akahu_id == Head(todo)
              r == sync_step(impl, account_type, existing_mapping[akahu_id], env, now)
          IN  /\ existing_mapping' = [existing_mapping EXCEPT ![akahu_id] = r.entry]
              /\ remote' = [remote EXCEPT ![akahu_id] = r.log]
              /\ sent' = sent \cup {<<akahu_id, request>> : request \in r.sent}
              /\ successful_syncs' = IF r.success
                                      THEN successful_syncs \cup {akahu_id}
                                      ELSE successful_syncs
              /\ raised' = r.raised
              /\ pc' = IF r.raised # NoneVal THEN "sync_raised" ELSE "syncing"
    /\ todo' = Tail(todo)
    /\ UNCHANGED <<data_to_save, file_before>>
    /\ UNCHANGED <<visits, account_type, last, impl, now, store, fetched,
                   existing_akahu_accounts, existing_actual_accounts,
                   existing_ynab_accounts, merged, matches, history>>

\* The end of the sync function.  modules/sync_handler.py: if the successful
\* set is not empty, update_mapping_timestamps.  akahu_to_budget.py:
\* save_mapping() without its argument, a TypeError.
SyncEnd ==
    /\ pc = "syncing"
    /\ todo = << >>
    /\ IF impl = "modules"
       THEN /\ store' = IF successful_syncs # {}
                         THEN update_mapping_timestamps(store, successful_syncs,
                                                        account_type, now)
                         ELSE store
            /\ raised' = NoneVal
            /\ pc' = "synced"
       ELSE /\ store' = store
            /\ raised' = "TypeError"
            /\ pc' = "sync_raised"
    /\ UNCHANGED <<data_to_save, file_before, remote, successful_syncs, sent>>
    /\ UNCHANGED <<visits, matching, impl, now, fetched, loaded, merged, matches, history>>

NextSync ==
    \/ SyncIteration
    \/ SyncEnd

SpecSync == InitSync /\ [][NextSync]_vars

\* --------------------------------------------- check_for_changes on its own

\* An Akahu account as fetched, with one nested block of the API response.
AkahuAccount(i, r) ==
    Update(FetchedAccount("akahu", i, 0), [refreshed |-> [balance |-> r]])

\* The collections of one provider a direct call may be given: any subset of
\* the accounts, each with any value.
CheckChoices(provider) ==
    IF provider = "akahu"
    THEN UNION {[S -> {AkahuAccount(i, r) : i \in AkahuIds, r \in Balances}] :
                S \in SUBSET AkahuIds}
    ELSE UNION {[S -> {FetchedAccount(provider, i, b) :
                          i \in Ids(provider), b \in Balances}] :
                S \in SUBSET Ids(provider)}

InitCheck ==
    /\ impl \in Impls
    /\ now = 1
    /\ pc = "check"
    /\ store = [akahu_accounts |-> EmptyDict, actual_accounts |-> EmptyDict,
                ynab_accounts |-> EmptyDict, mapping |-> EmptyDict]
    /\ latest_akahu_accounts \in {c \in CheckChoices("akahu") : KeyedById(c)}
    /\ latest_actual_accounts \in {c \in CheckChoices("actual") : KeyedById(c)}
    /\ latest_ynab_accounts \in {c \in CheckChoices("ynab") : KeyedById(c)}
    /\ existing_akahu_accounts \in {c \in CheckChoices("akahu") : KeyedById(c)}
    /\ existing_actual_accounts \in {c \in CheckChoices("actual") : KeyedById(c)}
    /\ existing_ynab_accounts \in {c \in CheckChoices("ynab") : KeyedById(c)}
    /\ existing_mapping = EmptyDict
    /\ akahu_accounts = EmptyDict
    /\ actual_accounts = EmptyDict
    /\ ynab_accounts = EmptyDict
    /\ new_mapping = EmptyDict
    /\ prompted = FALSE
    /\ confirmation = NoneVal
    /\ matches = <<TRUE, TRUE, TRUE>>
    /\ first_loaded = [key \in CollectionKeys |-> EmptyDict]
    /\ declined = NoDecline
    /\ deleted_accounts = {}
    /\ NoDirect
    /\ NoMatching

\* check_for_changes(existing_akahu, latest_akahu, existing_actual,
\* latest_actual, existing_ynab, latest_ynab).
CheckForChanges ==
    /\ pc = "check"
    /\ matches' = check_for_changes(impl,
                        existing_akahu_accounts, latest_akahu_accounts,
                        existing_actual_accounts, latest_actual_accounts,
                        existing_ynab_accounts, latest_ynab_accounts)
    /\ pc' = "checked"
    /\ UNCHANGED <<direct, visits, matching, impl, now, store, fetched, loaded, merged, history>>

SpecCheck == InitCheck /\ [][CheckForChanges]_vars

\* --------------------------------------------- combine_accounts on its own

\* Times of the direct calls: the existing records were stamped at 0, the
\* first merge runs at 1, a re-merge at any later time up to MaxTime.
MaxTime == 3

\* Existing collections: any subset of the accounts, each record with any
\* scalar value, stamped at time 0 or (a store written by hand) not stamped.
ExistingChoices ==
    UNION {[S -> {FetchedAccount("ynab", i, b) : i \in YnabIds, b \in Balances}
                 \cup {Update(FetchedAccount("ynab", i, b),
                              [date_first_loaded |-> 0]) :
                          i \in YnabIds, b \in Balances}] :
           S \in SUBSET YnabIds}

\* Latest collections: any subset of the accounts, each with any scalar value.
LatestChoices ==
    UNION {[S -> {FetchedAccount("ynab", i, b) : i \in YnabIds, b \in Balances}] :
           S \in SUBSET YnabIds}

InitCombine ==
    /\ impl = "modules"
    /\ now = 1
    /\ pc = "combine"
    /\ store = [akahu_accounts |-> EmptyDict, actual_accounts |-> EmptyDict,
                ynab_accounts |-> EmptyDict, mapping |-> EmptyDict]
    /\ latest_akahu_accounts = EmptyDict
    /\ latest_actual_accounts = EmptyDict
    /\ latest_ynab_accounts \in {c \in LatestChoices : KeyedById(c)}
    /\ existing_akahu_accounts = EmptyDict
    /\ existing_actual_accounts = EmptyDict
    /\ existing_ynab_accounts \in {c \in ExistingChoices : KeyedById(c)}
    /\ existing_mapping = EmptyDict
    /\ akahu_accounts = EmptyDict
    /\ actual_accounts = EmptyDict
    /\ ynab_accounts = EmptyDict
    /\ new_mapping = EmptyDict
    /\ prompted = FALSE
    /\ confirmation = NoneVal
    /\ matches = <<TRUE, TRUE, TRUE>>
    /\ first_loaded = [key \in CollectionKeys |-> EmptyDict]
    /\ declined = NoDecline
    /\ deleted_accounts = {}
    /\ NoDirect
    /\ NoMatching

\* combine_accounts(latest, existing) at time now.  The records of latest are
\* updated in place.
Combine ==
    /\ pc = "combine"
    /\ LET r == combine_accounts(latest_ynab_accounts, existing_ynab_accounts, now)
       IN  /\ ynab_accounts' = r.combined_accounts
           /\ latest_ynab_accounts' = r.combined_accounts
           /\ deleted_accounts' = r.deleted_accounts
    /\ pc' = "combined"
    /\ UNCHANGED <<direct, visits, matching, impl, now, store, latest_akahu_accounts, latest_actual_accounts,
                   loaded, akahu_accounts, actual_accounts, new_mapping, prompted,
                   confirmation, matches, first_loaded, declined>>

\* combine_accounts(C, C) at a later time, C the combined collection.
Recombine ==
    /\ pc \in {"combined", "recombined"}
    /\ \E t \in (now + 1)..MaxTime :
        LET r == combine_accounts(ynab_accounts, ynab_accounts, t)
        IN  /\ now' = t
            /\ existing_ynab_accounts' = ynab_accounts
            /\ latest_ynab_accounts' = r.combined_accounts
            /\ ynab_accounts' = r.combined_accounts
            /\ deleted_accounts' = r.deleted_accounts
    /\ pc' = "recombined"
    /\ UNCHANGED <<direct, visits, matching, impl, store, latest_akahu_accounts, latest_actual_accounts,
                   existing_akahu_accounts, existing_actual_accounts,
                   existing_mapping, akahu_accounts, actual_accounts, new_mapping,
                   prompted, confirmation, matches, first_loaded, declined>>

NextCombine ==
    \/ Combine
    \/ Recombine

SpecCombine == InitCombine /\ [][NextCombine]_vars

\* ================================================================== claims

IsYes(reply) == reply \in {"y", "Y"}

\* merge_and_update_mapping has ended, by returning or by raising.
MergeEnded == pc \in {"merged", "aborted"}

\* The four fields of provider P's reference that the specification groups.
FieldGroup(P) ==
    IF P = "actual"
    THEN {"actual_account_id", "actual_budget_id", "actual_account_name",
          "actual_matched_date"}
    ELSE {"ynab_account_id", "ynab_budget_id", "ynab_account_name",
          "ynab_matched_date"}

ActualFields == FieldGroup("actual") \cup {"actual_do_not_map"}

\* The scenario of C1 for source account k and YNAB account y: the entry of k
\* holds the four ynab fields with ynab_account_id = y and some actual field,
\* the existing YNAB collection holds y, the latest fetch does not, the source
\* account is still fetched, and the user answers Y if asked.
ClosedYnabScenario(k, y) ==
    /\ MergeEnded
    /\ k \in DOMAIN store.mapping
    /\ FieldGroup("ynab") \subseteq DOMAIN store.mapping[k]
    /\ store.mapping[k].ynab_account_id = y
    /\ ActualFields \cap DOMAIN store.mapping[k] # {}
    /\ y \in DOMAIN existing_ynab_accounts
    /\ y \notin DOMAIN latest_ynab_accounts
    /\ k \in DOMAIN latest_akahu_accounts
    /\ prompted => IsYes(confirmation)

\* C1: in the closed-YNAB-account scenario answered Y, merge_and_update_mapping
\* returns a mapping that still has the source account's entry, with the four
\* ynab fields gone and every actual field as it was.
C1_ClosedYnabStripped ==
    \A k \in AkahuIds, y \in YnabIds :
        ClosedYnabScenario(k, y) =>
            /\ pc = "merged"
            /\ k \in DOMAIN new_mapping
            /\ FieldGroup("ynab") \cap DOMAIN new_mapping[k] = {}
            /\ \A f \in ActualFields \cap DOMAIN store.mapping[k] :
                  /\ f \in DOMAIN new_mapping[k]
                  /\ new_mapping[k][f] = store.mapping[k][f]

\* C2: after merge_and_update_mapping returns with an affirmative confirmation,
\* every mapping key is an id of the combined Akahu collection and every
\* P_account_id of an entry is an id of P's combined collection.
C2_ReferentialIntegrity ==
    (pc = "merged" /\ prompted /\ IsYes(confirmation)) =>
        StaleReferences(new_mapping, akahu_accounts, actual_accounts,
                        ynab_accounts) = {}

\* C3: an entry of the returned mapping whose P_account_id was removed keeps
\* none of P_account_id, P_budget_id, P_account_name, P_matched_date.
C3_GroupRemovedTogether ==
    pc = "merged" =>
        \A k \in DOMAIN new_mapping \cap DOMAIN store.mapping, P \in Providers :
            (/\ AccountIdKey(P) \in DOMAIN store.mapping[k]
             /\ AccountIdKey(P) \notin DOMAIN new_mapping[k])
            => FieldGroup(P) \cap DOMAIN new_mapping[k] = {}

\* C4: when no prompt is shown or the reply is not y/Y, merge_and_update_mapping
\* returns, and the mapping it returns equals the existing mapping.
C4_GateKeepsMapping ==
    (MergeEnded /\ (~prompted \/ ~IsYes(confirmation))) =>
        /\ pc = "merged"
        /\ new_mapping = store.mapping

\* C4 happens: a deletion that would remove a mapping entry was declined.
C4_Witness ==
    /\ pc = "merged"
    /\ prompted
    /\ confirmation = "n"
    /\ \E k \in DOMAIN store.mapping : k \notin DOMAIN akahu_accounts
    /\ \E k \in DOMAIN store.mapping :
          /\ "ynab_account_id" \in DOMAIN store.mapping[k]
          /\ store.mapping[k].ynab_account_id \notin DOMAIN ynab_accounts

\* C5: when the previous pass declined the deletion of stale references and
\* saved, and this pass fetched the same accounts, the prompt is shown again.
C5_DeclinedAskedAgain ==
    (/\ MergeEnded
     /\ declined.declined
     /\ DOMAIN latest_akahu_accounts = declined.akahu
     /\ DOMAIN latest_actual_accounts = declined.actual
     /\ DOMAIN latest_ynab_accounts = declined.ynab)
    => prompted

\* C6: merge_and_update_mapping returns normally for every well-formed input
\* and every reply.
C6_MergeNeverRaises == pc # "aborted"

\* C7: for every id in both collections whose existing record has a
\* date_first_loaded, the combined record has that value, not the merge time.
C7_ProvenancePreserved ==
    pc = "combined" =>
        \A i \in DOMAIN existing_ynab_accounts \cap DOMAIN ynab_accounts :
            "date_first_loaded" \in DOMAIN existing_ynab_accounts[i] =>
                /\ ynab_accounts[i].date_first_loaded
                      = existing_ynab_accounts[i].date_first_loaded
                /\ ynab_accounts[i].date_first_loaded # now

\* C7 happens: a shared account whose scalar field changed was merged.
C7_Witness ==
    /\ pc = "combined"
    /\ \E i \in DOMAIN existing_ynab_accounts \cap DOMAIN ynab_accounts :
          /\ "date_first_loaded" \in DOMAIN existing_ynab_accounts[i]
          /\ existing_ynab_accounts[i].balance # ynab_accounts[i].balance

\* C8: every persisted account record carries the date_first_loaded its id had
\* when it was first persisted.
C8_FirstLoadedNeverChanges ==
    \A key \in CollectionKeys :
        \A i \in DOMAIN store[key] :
            store[key][i].date_first_loaded = first_loaded[key][i]

\* C9: when the confirmation is declined or not asked, every id of an existing
\* collection is in the combined collection merge_and_update_mapping returns.
C9_OnlyConfirmedDeletionRemoves ==
    (pc = "merged" /\ (~prompted \/ ~IsYes(confirmation))) =>
        /\ DOMAIN existing_akahu_accounts \subseteq DOMAIN akahu_accounts
        /\ DOMAIN existing_actual_accounts \subseteq DOMAIN actual_accounts
        /\ DOMAIN existing_ynab_accounts \subseteq DOMAIN ynab_accounts

\* C10: an id absent from the existing set is stamped with the merge time, and
\* combine_accounts(C, C) at a later time returns the date_first_loaded of C
\* for every id of C and an empty deletion list.
C10_StampedOnce ==
    /\ pc = "combined" =>
          \A i \in (DOMAIN ynab_accounts) \ (DOMAIN existing_ynab_accounts) :
              ynab_accounts[i].date_first_loaded = now
    /\ pc = "recombined" =>
          /\ DOMAIN ynab_accounts = DOMAIN existing_ynab_accounts
          /\ \A i \in DOMAIN ynab_accounts :
                ynab_accounts[i].date_first_loaded
                   = existing_ynab_accounts[i].date_first_loaded
          /\ deleted_accounts = {}

\* C10 happens: an account stamped by the first merge was merged again later.
C10_Witness ==
    /\ pc = "recombined"
    /\ now > 1
    /\ \E i \in DOMAIN ynab_accounts : ynab_accounts[i].date_first_loaded = 1

\* ------------------------------------------------- claims on match_accounts

\* A loop iteration of match_accounts has just ended; last describes it.
JustIterated ==
    /\ pc \in {"matching", "match_raised"}
    /\ last.akahu_id # NoneVal

\* The entry of the iteration's source account before and after it.
EntryBefore == Get(last.before, last.akahu_id, EmptyDict)
EntryAfter == Get(new_mapping, last.akahu_id, EmptyDict)

\* The target whose seq the user typed, NoneVal if the input is no target's seq.
TypedTarget ==
    IF IsInt(last.user_input)
       /\ \E i \in DOMAIN Targets(account_type) :
             Targets(account_type)[i].seq = IntOf(last.user_input)
    THEN CHOOSE i \in DOMAIN Targets(account_type) :
             Targets(account_type)[i].seq = IntOf(last.user_input)
    ELSE NoneVal

\* Some entry held this target as its P_account_id before the iteration.
WasClaimed(target_id) ==
    \E k \in DOMAIN last.before :
        /\ AccountIdKey(account_type) \in DOMAIN last.before[k]
        /\ last.before[k][AccountIdKey(account_type)] = target_id

\* No two distinct entries hold the same P_account_id.
Exclusive(mapping) ==
    \A P \in Providers, k1 \in DOMAIN mapping, k2 \in DOMAIN mapping :
        (/\ k1 # k2
         /\ AccountIdKey(P) \in DOMAIN mapping[k1]
         /\ AccountIdKey(P) \in DOMAIN mapping[k2])
        => mapping[k1][AccountIdKey(P)] # mapping[k2][AccountIdKey(P)]

\* C11: after any sequence of match_accounts calls and user inputs no two
\* distinct entries hold the same P_account_id, and typing the seq of a target
\* that another entry claims writes nothing.
C11_ClaimExclusivity ==
    /\ Exclusive(new_mapping)
    /\ (JustIterated /\ last.asked /\ TypedTarget # NoneVal
           /\ WasClaimed(TypedTarget))
       => new_mapping = last.before

\* C11 happens: the user typed the seq of a target another source account holds.
C11_Witness ==
    /\ JustIterated
    /\ last.asked
    /\ TypedTarget # NoneVal
    /\ WasClaimed(TypedTarget)
    /\ ~last.raised

\* C12: match_accounts of modules/account_mapper.py skips a source account whose
\* entry holds P_account_id or P_do_not_map = true: no suggestion call, no
\* prompt, the mapping unchanged.
C12_DecidedIsSkipped ==
    (/\ JustIterated
     /\ impl = "modules"
     /\ \/ AccountIdKey(account_type) \in DOMAIN EntryBefore
        \/ Get(EntryBefore, DoNotMapKey(account_type), FALSE) = TRUE)
    => /\ ~last.suggested
       /\ ~last.asked
       /\ ~last.raised
       /\ new_mapping = last.before

\* C12 happens: a later call visited an entry marked do-not-map, without P_account_id.
C12_Witness ==
    /\ JustIterated
    /\ impl = "modules"
    /\ Get(EntryBefore, DoNotMapKey(account_type), FALSE) = TRUE
    /\ AccountIdKey(account_type) \notin DOMAIN EntryBefore
    /\ EntryBefore[IF account_type = "actual" THEN "actual_matched_date"
                   ELSE "ynab_matched_date"] < now

\* C13: in every mapping that match_accounts and merge_and_update_mapping of
\* modules/account_mapper.py reach, no entry has both P_do_not_map = true and
\* a P_account_id.
C13_DoNotMapExcludesAccount ==
    impl = "modules" =>
        \A k \in DOMAIN new_mapping, P \in Providers :
            ~(/\ Get(new_mapping[k], DoNotMapKey(P), FALSE) = TRUE
              /\ AccountIdKey(P) \in DOMAIN new_mapping[k])

\* C13 happens: a do-not-map entry written by one match_accounts call went
\* through a later merge or match_accounts call.
C13_Witness ==
    /\ impl = "modules"
    /\ pc = "match_idle"
    /\ now >= 2
    /\ \E k \in DOMAIN new_mapping :
          /\ Get(new_mapping[k], DoNotMapKey(account_type), FALSE) = TRUE
          /\ new_mapping[k][IF account_type = "actual"
                            THEN "actual_matched_date"
                            ELSE "ynab_matched_date"] < now

\* The fields of the other provider's group.
OtherGroup(P) ==
    IF P = "ynab"
    THEN {"actual_account_id", "actual_account_name", "actual_budget_id",
          "actual_matched_date", "actual_do_not_map", "actual_synced_datetime"}
    ELSE {"ynab_account_id", "ynab_account_name", "ynab_budget_id",
          "ynab_matched_date", "ynab_do_not_map", "ynab_synced_datetime"}

\* C14: a Confirmed or DoNotMap transition for provider P leaves every field of
\* the other provider's group on the entry as it was (absent, or the same value).
C14_OtherGroupUntouched ==
    (JustIterated /\ last.asked /\ ~last.raised) =>
        \A f \in OtherGroup(account_type) :
            /\ (f \in DOMAIN EntryAfter) <=> (f \in DOMAIN EntryBefore)
            /\ f \in DOMAIN EntryBefore => EntryAfter[f] = EntryBefore[f]

\* C15: an integer input that is the seq of an unclaimed target makes
\* match_accounts of modules/account_mapper.py write P_account_id and
\* P_account_name of that target, akahu_id and akahu_name of the source
\* account, P_matched_date and the configured P_budget_id.
C15_ConfirmedWrites ==
    (/\ JustIterated
     /\ impl = "modules"
     /\ last.asked
     /\ TypedTarget # NoneVal
     /\ ~WasClaimed(TypedTarget))
    => /\ ~last.raised
       /\ LET P == account_type
              written == IF P = "actual"
                         THEN [actual_account_id |-> TypedTarget,
                               actual_account_name |->
                                   actual_accounts[TypedTarget].name,
                               actual_matched_date |-> now,
                               actual_budget_id |-> "sync-id",
                               akahu_id |-> last.akahu_id,
                               akahu_name |-> akahu_accounts[last.akahu_id].name]
                         ELSE [ynab_account_id |-> TypedTarget,
                               ynab_account_name |->
                                   ynab_accounts[TypedTarget].name,
                               ynab_matched_date |-> now,
                               ynab_budget_id |-> "budget-id",
                               akahu_id |-> last.akahu_id,
                               akahu_name |-> akahu_accounts[last.akahu_id].name]
          IN  /\ last.akahu_id \in DOMAIN new_mapping
              /\ \A f \in DOMAIN written :
                    /\ f \in DOMAIN EntryAfter
                    /\ EntryAfter[f] = written[f]

\* C15 happens: the entry did not exist and was created by a confirmed match.
C15_Witness ==
    /\ JustIterated
    /\ impl = "modules"
    /\ last.asked
    /\ TypedTarget # NoneVal
    /\ ~WasClaimed(TypedTarget)
    /\ last.akahu_id \notin DOMAIN last.before
    /\ last.akahu_id \in DOMAIN new_mapping

\* C16: typing 0 at the prompt makes match_accounts, of either file, write
\* P_do_not_map = true and P_matched_date, no P_account_id, without raising.
C16_ZeroMarksDoNotMap ==
    (JustIterated /\ last.asked /\ last.user_input = "0") =>
        /\ ~last.raised
        /\ pc = "matching"
        /\ Get(EntryAfter, DoNotMapKey(account_type), FALSE) = TRUE
        /\ (IF account_type = "actual" THEN "actual_matched_date"
            ELSE "ynab_matched_date") \in DOMAIN EntryAfter
        /\ AccountIdKey(account_type) \notin DOMAIN EntryAfter

\* The input is empty, no integer, an integer that is no target's seq, or the
\* seq of a claimed target.
InvalidInput ==
    \/ ~IsInt(last.user_input)
    \/ /\ IsInt(last.user_input)
       /\ IntOf(last.user_input) # 0
       /\ \/ TypedTarget = NoneVal
          \/ WasClaimed(TypedTarget)

\* C17: on an invalid input match_accounts raises nothing, leaves the whole
\* mapping unchanged and goes on with the next source account.
C17_InvalidInputIsNoDecision ==
    (JustIterated /\ last.asked /\ InvalidInput) =>
        /\ ~last.raised
        /\ pc = "matching"
        /\ new_mapping = last.before

\* C17 happens: an integer that is no target's seq was typed for the first of
\* two source accounts.
C17_Witness ==
    /\ JustIterated
    /\ last.asked
    /\ IsInt(last.user_input)
    /\ IntOf(last.user_input) # 0
    /\ TypedTarget = NoneVal
    /\ todo # << >>

\* C18: a source account the previous pass prompted for P and left without
\* decision is prompted for P again by the time this pass has finished matching.
C18_SkippedAskedAgain ==
    pc = "matched" =>
        \A v \in skipped :
            (v[1] \in DOMAIN akahu_accounts
               /\ IsUndecided(existing_mapping, v[1], v[2]))
            => v \in asked

\* C19: with the same mapping, accounts and user input, the iteration of
\* match_accounts of modules/account_mapper.py gives the same result whatever
\* the suggestion strategy returns.
C19_SuggestionIsAdvisory ==
    (JustIterated /\ impl = "modules" /\ last.suggested) =>
        \A other \in Suggestions(impl, Targets(account_type), last.before,
                                 account_type) :
            LET st == match_step(impl, MatchState(last.before), akahu_accounts,
                                 Targets(account_type), account_type,
                                 last.akahu_id, last.user_input, other, last.t)
            IN  /\ st.mapping = new_mapping
                /\ st.raised = last.raised

\* C19 happens: the user pressed Enter while a target was suggested, and
\* the user confirmed a target other than the suggested one.
C19_Witness ==
    /\ JustIterated
    /\ impl = "modules"
    /\ last.suggested
    /\ last.suggestion.value # 0
    /\ \/ last.user_input = ""
       \/ /\ TypedTarget # NoneVal
          /\ Targets(account_type)[TypedTarget].seq # last.suggestion.value
          /\ new_mapping # last.before

\* The reply of the external call is an integer that is 0 or the seq of a
\* target no entry claims.
ValidReply ==
    /\ last.response # ApiRaises
    /\ IsInt(last.response)
    /\ \/ IntOf(last.response) = 0
       \/ \E i \in DOMAIN Targets(account_type) :
             /\ Targets(account_type)[i].seq = IntOf(last.response)
             /\ \A k \in DOMAIN new_mapping :
                   Get(new_mapping[k], AccountIdKey(account_type), NoneVal) # i

\* C20: get_openai_match_suggestion of modules/account_mapper.py returns 0 or
\* the seq of an unclaimed target, and the result of
\* get_fuzzy_match_suggestion when the call raised or the reply is not valid.
C20_SuggestionFallsBack ==
    (pc = "suggested" /\ impl = "modules") =>
        /\ last.suggestion.type = "int"
        /\ \/ last.suggestion.value = 0
           \/ \E i \in DOMAIN Targets(account_type) :
                 /\ Targets(account_type)[i].seq = last.suggestion.value
                 /\ \A k \in DOMAIN new_mapping :
                       Get(new_mapping[k], AccountIdKey(account_type), NoneVal) # i
        /\ ~ValidReply =>
              last.suggestion = get_fuzzy_match_suggestion(
                                    impl, last.fuzzy, Targets(account_type),
                                    new_mapping, account_type)

\* C20 happens: the external call raised and the fuzzy fallback gave a target.
C20_Witness ==
    /\ pc = "suggested"
    /\ impl = "modules"
    /\ last.response = ApiRaises
    /\ last.fuzzy.confidence >= 50
    /\ last.suggestion.value # 0

\* ---------------------------------------------- claims on check_for_changes

\* The three pairs of collections a direct check_for_changes call was given,
\* in the order of the flags it returns.
CheckedPairs ==
    <<[existing |-> existing_akahu_accounts, latest |-> latest_akahu_accounts],
      [existing |-> existing_actual_accounts, latest |-> latest_actual_accounts],
      [existing |-> existing_ynab_accounts, latest |-> latest_ynab_accounts]>>

\* The two collections hold the same ids and differ in the balance of exactly
\* one account, and in nothing else.
OneScalarDiffers(pair) ==
    /\ DOMAIN pair.existing = DOMAIN pair.latest
    /\ \E i \in DOMAIN pair.existing :
          /\ pair.existing[i].balance # pair.latest[i].balance
          /\ PopAll(pair.existing[i], {"balance"}) = PopAll(pair.latest[i], {"balance"})
          /\ \A j \in (DOMAIN pair.existing) \ {i} : pair.existing[j] = pair.latest[j]

\* C21: check_for_changes(X, X, Y, Y, Z, Z) returns (true, true, true), and
\* when existing and latest differ only in one scalar field of one shared
\* account of one provider, exactly that provider's flag is false.
C21_ChangeDetectionSound ==
    pc = "checked" =>
        /\ (\A n \in 1..3 : CheckedPairs[n].existing = CheckedPairs[n].latest)
                => matches = <<TRUE, TRUE, TRUE>>
        /\ \A n \in 1..3 :
              ( /\ OneScalarDiffers(CheckedPairs[n])
                /\ \A o \in (1..3) \ {n} :
                      CheckedPairs[o].existing = CheckedPairs[o].latest )
                => matches = [o \in 1..3 |-> o # n]

\* A call whose YNAB collections differ in one balance only has returned.
C21_Witness ==
    /\ pc = "checked"
    /\ OneScalarDiffers(CheckedPairs[3])
    /\ CheckedPairs[1].existing = CheckedPairs[1].latest
    /\ CheckedPairs[1].existing # EmptyDict
    /\ CheckedPairs[2].existing = CheckedPairs[2].latest
    /\ matches = <<TRUE, TRUE, FALSE>>

\* C22: check_for_changes reports a provider as changed whenever the id sets
\* of its existing and latest collections differ, in either direction.
C22_IdSetDifferenceDetected ==
    pc = "checked" =>
        \A n \in 1..3 :
            DOMAIN CheckedPairs[n].existing # DOMAIN CheckedPairs[n].latest
                => matches[n] = FALSE

\* ------------------------------------------------- claims on the gate of main

AllMatch(flags) == flags[1] /\ flags[2] /\ flags[3]

\* What main() hands to remove_seq and save_mapping.
MergedDocument ==
    [akahu_accounts |-> akahu_accounts, actual_accounts |-> actual_accounts,
     ynab_accounts |-> ynab_accounts, mapping |-> new_mapping]

C24_FailedSaveLeavesFile ==
    pc \in {"save_writing", "saved", "save_failed"} =>
        /\ raised = NoneVal
        /\ pc = "save_failed" => store = file_before
        /\ store \in {file_before, FileOf(json_dumps(data_to_save).text)}

\* The four values a load returned, as a document.
LoadedDocument ==
    [akahu_accounts |-> existing_akahu_accounts,
     actual_accounts |-> existing_actual_accounts,
     ynab_accounts |-> existing_ynab_accounts,
     mapping |-> existing_mapping]

\* C25: for any document with the four required keys that holds seq keys at
\* any depth, save_mapping followed by load_existing_mapping yields a
\* structure with no seq key anywhere and every other key and value preserved.
C25_SeqRoundTrip ==
    (pc = "reloaded" /\ raised = NoneVal) =>
        \A key \in RequiredKeys :
            LoadedDocument[key] = remove_seq(data_to_save)[key]

\* C26: load_existing_mapping never repairs a bad store: a missing file raises
\* the missing-file error, invalid JSON or a missing required key raises a
\* schema error, and no empty or defaulted collection is returned.
C26_LoadNeverRepairs ==
    pc \in {"loaded", "reloaded"} =>
        /\ ~store.exists => raised = "FileNotFoundError"
        /\ (store.exists /\ ~store.text.valid)
              => raised \in {"ValueError", "JSONDecodeError"}
        /\ (store.exists /\ store.text.valid
            /\ ~(RequiredKeys \subseteq DOMAIN store.text.json))
              => raised \in {"ValueError", "JSONDecodeError"}

\* --------------------------------------------------------- claims on the fetches

\* C27: a failed provider fetch (a network exception or a non-success HTTP
\* response) always raises and never returns an empty collection, for
\* fetch_akahu_accounts, fetch_actual_accounts and fetch_ynab_accounts.
C27_FailedFetchRaises ==
    (\E provider \in DOMAIN remote : remote[provider] \in ResponseKinds \ {"ok"})
        => raised # NoneVal

\* ----------------------------------------------------- claims on the sync layer

\* The entry of a source account in the mapping file before the sync call.
EntryInFile(akahu_id) == file_before.mapping[akahu_id]

\* C28: the sync layer advances an account's P_synced_datetime only after
\* every Akahu transaction since the previous mark was fetched and accepted by
\* the target: if the push to YNAB fails, or get_all_akahu breaks off on a
\* request error part-way through pagination, the account is not added to the
\* successful set and update_mapping_timestamps leaves its mark unchanged.
C28_MarkOnlyAfterFullSync ==
    (pc = "synced" /\ account_type = "ynab") =>
        \A akahu_id \in DOMAIN remote :
            (remote[akahu_id].visited
             /\ (~remote[akahu_id].accepted \/ ~remote[akahu_id].complete))
                => /\ akahu_id \notin successful_syncs
                   /\ store.mapping[akahu_id] = EntryInFile(akahu_id)

\* C29: after sync_to_ab or sync_to_ynab has fetched an account's Akahu
\* balance and completed successfully for that account, the entry of the
\* account in the persisted mapping file holds that akahu_balance.
C29_BalanceWrittenBack ==
    pc = "synced" =>
        \A akahu_id \in successful_syncs :
            remote[akahu_id].balance # NoneInt
                => /\ "akahu_balance" \in DOMAIN store.mapping[akahu_id]
                   /\ store.mapping[akahu_id].akahu_balance = remote[akahu_id].balance

\* C30: an entry with P_do_not_map = true is never synced to P, whatever its
\* account_type: nothing is sent to P for it, its P_synced_datetime is never
\* updated, and the loop moves on to the next entry without raising.
C30_DoNotMapNeverSynced ==
    pc \in {"syncing", "synced", "sync_raised"} =>
        \A akahu_id \in DOMAIN file_before.mapping :
            IsDoNotMap(EntryInFile(akahu_id), account_type)
                => /\ \A request \in {"transactions", "adjustment"} :
                         <<akahu_id, request>> \notin sent
                   /\ store.mapping[akahu_id] = EntryInFile(akahu_id)
                   /\ remote[akahu_id].raised = NoneVal
====
